---- MODULE Spec2Model ----
(***************************************************************************)
(* LegalContractAI: the pipeline/orchestration core.                       *)
(*                                                                         *)
(*   SpecLimiter     app/utils/rate_limiter.py   RateLimiter under         *)
(*                   concurrent asyncio callers                            *)
(*   SpecDispatch    app/llms/hybrid_client.py   HybridLLMClient.generate  *)
(*                   over the OpenAI and Gemini adapters                   *)
(*   SpecFactory     app/llms/__init__.py, gemini_client.py,               *)
(*                   openai_client.py, hybrid_client.py: the client        *)
(*                   factories and the limiter instances they create       *)
(*   SpecDraft       app/agents/drafting: DraftingOrchestrator.run, its    *)
(*                   five stages and the single-prompt fallback            *)
(*   SpecCompliance  app/agents/compliance: ComplianceOrchestrator.run     *)
(*                   and its seven stages                                  *)
(*   SpecPipelines   runs of either orchestrator, one after another        *)
(*   SpecLimiterLive SpecLimiter under fair scheduling, bounded calls      *)
(*   SpecLimiterSeq  app/utils/rate_limiter.py   RateLimiter used by one   *)
(*                   caller, over a longer stretch of time                 *)
(*   SpecDispatchPdf app/llms/hybrid_client.py   generate_with_pdfs        *)
(*   SpecRisk        app/agents/compliance/risk_scoring.py: the Risk       *)
(*                   Scoring stage on any findings mapping                 *)
(*   SpecRiskAgent   app/agents/risk_agent.py: _determine_risk_level on    *)
(*                   any parsed finding                                    *)
(*   SpecClauseAgent app/agents/clause_agent.py: ClauseAgent.run from the  *)
(*                   preprocessed text on (_split_clauses, the filter)     *)
(*   SpecPreprocess  app/agents/clause_agent.py: _preprocess_text on any   *)
(*                   text, character by character                          *)
(*   SpecAnalysis    app/agents/compliance_agent.py, risk_agent.py,        *)
(*                   services/compliance_service.py: the analysis of one   *)
(*                   clause, compliance_agent.run then risk_agent.run      *)
(*                                                                         *)
(* Time is counted in ticks.  For a limiter of rpm r > 0 one tick is       *)
(* 60 / (r * TicksPerToken) seconds, so that the bucket refills one        *)
(* scaled unit per tick and a whole token is TicksPerToken units; the      *)
(* float arithmetic of the source is exact in these units.                 *)
(***************************************************************************)
EXTENDS Integers, Sequences, FiniteSets, TLC

\* ------------------------------------------------------------------ bounds
NumTasks == 2
MaxRpm == 2
TicksPerToken == 3
RpsGap == 2
MaxTime == 5

VARIABLES
    now,        \* time.monotonic(), in ticks
    lim,        \* the RateLimiter instance's fields
    tpc,        \* per caller: where its coroutine is suspended ("idle": not in a call)
    twake,      \* per caller: the time its asyncio.sleep ends
    tres,       \* per caller: how its last call ended
    admitted,   \* history: number of tokens taken since construction
    refilled,   \* history: scaled units added to rpm_tokens since construction
    admit_at,   \* history: the time of the last admission
    hc,         \* SpecDispatch: the HybridLLMClient (primary_provider, its two clients)
    glim,       \* SpecDispatch: gemini_client.rate_limiter
    dlast,      \* SpecDispatch: the last generate() call, with what it did
    fenv,               \* SpecFactory: which API keys the environment holds
    g_openai_client,    \* openai_client._openai_client is not None
    g_gemini_client,    \* gemini_client._gemini_client (0: None, else a GeminiClient)
    g_hybrid_client,    \* hybrid_client._hybrid_client (0: None, else a HybridLLMClient)
    fclients,           \* the HybridLLMClient instances constructed so far
    flims,              \* the rate limiters of the GeminiClient instances constructed so far
    fadmitted,          \* history: calls admitted to Gemini, all limiter instances
    gwrites,            \* history: per module-level object, who assigned it
    state,              \* SpecDraft, SpecCompliance: the run's ContractState
    orch,               \* where the orchestrator's run() is, its locals and history
    finding,            \* SpecRiskAgent: the parsed LLM answer handed to _determine_risk_level
    rlevel,             \* SpecRiskAgent: the calls of _determine_risk_level made so far
    ctext,              \* SpecClauseAgent: the preprocessed text handed to _split_clauses
    csplit,             \* SpecClauseAgent: what _split_clauses and run returned for ctext
    contract_text,      \* SpecPreprocess: the characters of a text given to _preprocess_text
    cleaned_text,       \* SpecPreprocess: what _preprocess_text returned, call after call
    analysis            \* SpecAnalysis: what compliance_agent.run did for the clause

limVars == <<lim, tpc, twake, tres, admitted, refilled, admit_at>>
dispVars == <<hc, glim, dlast>>
factVars == <<fenv, g_openai_client, g_gemini_client, g_hybrid_client, fclients, flims, fadmitted,
              gwrites>>
pipeVars == <<state, orch>>
agentVars == <<finding, rlevel, ctext, csplit, contract_text, cleaned_text, analysis>>
vars == <<now, limVars, dispVars, factVars, pipeVars, agentVars>>

Tasks == 1..NumTasks
Min(a, b) == IF a < b THEN a ELSE b

\* ------------------------------------------------------------ asyncio.Lock
\* holder = 0: unlocked.  A release hands the lock to the first waiter.
NewLock == [holder |-> 0, waiters |-> <<>>]
LockFree(lk) == lk.holder = 0 /\ lk.waiters = <<>>
LockTake(lk, t) == [lk EXCEPT !.holder = t]
LockEnqueue(lk, t) == [lk EXCEPT !.waiters = Append(@, t)]
\* a release that forgets the waiters
LockReleaseNoHandover(lk) == [lk EXCEPT !.holder = 0]
LockRelease(lk) ==
    IF lk.waiters = <<>> THEN [lk EXCEPT !.holder = 0]
    ELSE [holder |-> Head(lk.waiters), waiters |-> Tail(lk.waiters)]

\* ------------------------------------------------------------- RateLimiter
\* RateLimiter.__init__(rpm, rps): gap is rps_interval in ticks (0: rps = 0).
NewLimiter(rpm, gap, t) ==
    [rpm |-> rpm, rps_interval |-> gap,
     rpm_tokens |-> rpm * TicksPerToken, rpm_updated_at |-> t,
     rpm_lock |-> NewLock, last_request_time |-> 0, rps_lock |-> NewLock]

\* refill_amount = (time_passed / rpm_period) * rpm, then min(rpm, tokens + refill)
RefillTokens(l, t) ==
    LET time_passed == t - l.rpm_updated_at
        refill_amount == IF l.rpm = 0 THEN 0 ELSE time_passed
    IN IF refill_amount > 0
       THEN [l EXCEPT !.rpm_tokens = Min(l.rpm * TicksPerToken, @ + refill_amount),
                      !.rpm_updated_at = t]
       ELSE l

\* a plausible slip: any positive fraction of a token admits a call
HasTokenFraction(l) == l.rpm_tokens > 0
\* if self.rpm_tokens >= 1
HasToken(l) == l.rpm_tokens >= TicksPerToken
\* self.rpm_tokens -= 1
TakeToken(l) == [l EXCEPT !.rpm_tokens = @ - TicksPerToken]
\* wait_time = self.rps_interval - (now - self.last_request_time)
RpsWait(l, t) == l.rps_interval - (t - l.last_request_time)

\* The limiter and its callers as one value, so that a coroutine's run from
\* one suspension point to the next is one function of it.
LimState == [lim |-> lim, pc |-> tpc, wake |-> twake, res |-> tres,
             admitted |-> admitted, refilled |-> refilled, admit_at |-> admit_at]
LimApply(S) ==
    /\ lim' = S.lim
    /\ tpc' = S.pc
    /\ twake' = S.wake
    /\ tres' = S.res
    /\ admitted' = S.admitted
    /\ refilled' = S.refilled
    /\ admit_at' = S.admit_at

LimReturn(S, t, r) == [S EXCEPT !.pc[t] = "idle", !.res[t] = r]
LimSleep(S, t, p, d) == [S EXCEPT !.pc[t] = p, !.wake[t] = now + d]
LimRefill(S) ==
    LET l1 == RefillTokens(S.lim, now)
    IN [S EXCEPT !.lim = l1, !.refilled = @ + (l1.rpm_tokens - S.lim.rpm_tokens)]
LimTake(S) == [S EXCEPT !.lim = TakeToken(@), !.admitted = @ + 1, !.admit_at = now]
LimReleaseRpm(S) == [S EXCEPT !.lim.rpm_lock = LockRelease(@)]
LimReleaseRps(S) == [S EXCEPT !.lim.rps_lock = LockRelease(@)]

\* acquire(), the body of "while True" with rpm_lock held
AcqRpmLoop(S, t) ==
    LET S1 == LimRefill(S)
    IN IF HasToken(S1.lim) THEN LimReturn(LimReleaseRpm(LimTake(S1)), t, "acquired")
       ELSE IF S1.lim.rpm = 0
            THEN LimReturn(LimReleaseRpm(S1), t, "ZeroDivisionError")   \* 60.0 / self.rpm
            ELSE LimSleep(S1, t, "a_rpm_sleep", TicksPerToken)          \* sleeps with the lock held
\* acquire(), "async with self.rpm_lock"
AcqRpmEntry(S, t) ==
    IF LockFree(S.lim.rpm_lock)
    THEN AcqRpmLoop([S EXCEPT !.lim.rpm_lock = LockTake(@, t)], t)
    ELSE [S EXCEPT !.lim.rpm_lock = LockEnqueue(@, t), !.pc[t] = "a_wait_rpm"]
\* acquire(), after the rps sleep: last_request_time = now, leave rps_lock
AcqRpsExit(S, t) ==
    AcqRpmEntry(LimReleaseRps([S EXCEPT !.lim.last_request_time = now]), t)
\* acquire(), with rps_lock held
AcqRpsCrit(S, t) ==
    IF RpsWait(S.lim, now) > 0
    THEN LimSleep(S, t, "a_rps_sleep", RpsWait(S.lim, now))
    ELSE AcqRpsExit(S, t)
\* acquire(), from the call
AcqStart(S, t) ==
    IF S.lim.rps_interval > 0
    THEN IF LockFree(S.lim.rps_lock)
         THEN AcqRpsCrit([S EXCEPT !.lim.rps_lock = LockTake(@, t)], t)
         ELSE [S EXCEPT !.lim.rps_lock = LockEnqueue(@, t), !.pc[t] = "a_wait_rps"]
    ELSE AcqRpmEntry(S, t)

\* try_acquire(), with rpm_lock held
TryRpmCrit(S, t) ==
    LET S1 == LimRefill(S)
    IN IF HasToken(S1.lim)
       THEN LET S2 == LimTake(S1)
                S3 == IF S2.lim.rps_interval > 0
                      THEN [S2 EXCEPT !.lim.last_request_time = now] ELSE S2
            IN LimReturn(LimReleaseRpm(S3), t, "true")
       ELSE LimReturn(LimReleaseRpm(S1), t, "false")
\* try_acquire(), "async with self.rpm_lock"
TryRpmEntry(S, t) ==
    IF LockFree(S.lim.rpm_lock)
    THEN TryRpmCrit([S EXCEPT !.lim.rpm_lock = LockTake(@, t)], t)
    ELSE [S EXCEPT !.lim.rpm_lock = LockEnqueue(@, t), !.pc[t] = "t_wait_rpm"]
\* try_acquire(), with rps_lock held
TryRpsCrit(S, t) ==
    IF RpsWait(S.lim, now) > 0
    THEN LimReturn(LimReleaseRps(S), t, "false")
    ELSE TryRpmEntry(LimReleaseRps(S), t)
\* try_acquire(), from the call
TryStart(S, t) ==
    IF S.lim.rps_interval > 0
    THEN IF LockFree(S.lim.rps_lock)
         THEN TryRpsCrit([S EXCEPT !.lim.rps_lock = LockTake(@, t)], t)
         ELSE [S EXCEPT !.lim.rps_lock = LockEnqueue(@, t), !.pc[t] = "t_wait_rps"]
    ELSE TryRpmEntry(S, t)


\* ------------------------------------------------- adapters and error texts
GeminiRpm == 10
Adapters == {"OpenAI", "Gemini"}

\* An exception text is the sequence of its words; str(e).lower() lowers each.
Msg429 == <<"429", "Too", "Many", "Requests">>
MsgRateLimit == <<"Rate", "limit", "exceeded">>
MsgBadRequest == <<"400", "Bad", "Request">>
MsgNoLimiter == <<"'OpenAIClient'", "object", "has", "no", "attribute", "'rate_limiter'">>
MsgZeroDiv == <<"float", "division", "by", "zero">>
ErrMsgs == {Msg429, MsgRateLimit, MsgBadRequest}
Outcomes == {<<"ok">>} \cup ErrMsgs

LowerWord(w) ==
    CASE w = "Too" -> "too" [] w = "Many" -> "many" [] w = "Requests" -> "requests"
      [] w = "Rate" -> "rate" [] w = "Bad" -> "bad" [] w = "Request" -> "request"
      [] w = "'OpenAIClient'" -> "'openaiclient'"
      [] w = "Violation" -> "violation" [] w = "Medium" -> "medium"
      [] w = "HIGH" -> "high" [] w = " High " -> " high "
      [] w = "This" -> "this" [] w = "The" -> "the" [] w = "No" -> "no"
      [] w = "Consider" -> "consider" [] w = "Please" -> "please"
      [] w = "Unable" -> "unable" [] w = "Consult" -> "consult"
      [] OTHER -> w
Lower(m) == [i \in DOMAIN m |-> LowerWord(m[i])]
Contains(m, sig) ==
    \E i \in 1..(Len(m) - Len(sig) + 1) : SubSeq(m, i, i + Len(sig) - 1) = sig
\* is_rate_limit = "429" in error_str or "too many requests" in ... or "quota" in ...
IsRateLimit(m) ==
    LET error_str == Lower(m)
    IN \/ Contains(error_str, <<"429">>)
       \/ Contains(error_str, <<"too", "many", "requests">>)
       \/ Contains(error_str, <<"resource", "exhausted">>)
       \/ Contains(error_str, <<"quota">>)

\* OpenAIClient.__init__ sets no rate_limiter; GeminiClient.__init__ sets one
HasRateLimiter(name) == name = "Gemini"

\* ------------------------------------- the limiter, called by one caller
\* try_acquire() with both locks free: [ok, lim]
SeqTryAcquire(l, t) ==
    IF l.rps_interval > 0 /\ RpsWait(l, t) > 0 THEN [ok |-> FALSE, lim |-> l]
    ELSE LET l1 == RefillTokens(l, t)
         IN IF HasToken(l1)
            THEN [ok |-> TRUE,
                  lim |-> IF l1.rps_interval > 0
                          THEN [TakeToken(l1) EXCEPT !.last_request_time = t]
                          ELSE TakeToken(l1)]
            ELSE [ok |-> FALSE, lim |-> l1]
\* acquire(), "while True": the caller sleeps 60/rpm s until a token is there
RECURSIVE SeqAcquireLoop(_, _)
SeqAcquireLoop(l, t) ==
    LET l1 == RefillTokens(l, t)
    IN IF HasToken(l1) THEN [err |-> FALSE, lim |-> TakeToken(l1), t |-> t]
       ELSE IF l1.rpm = 0 THEN [err |-> TRUE, lim |-> l1, t |-> t]
       ELSE SeqAcquireLoop(l1, t + TicksPerToken)
\* acquire() with both locks free: [err, lim, t], t the time it returns
SeqAcquire(l, t) ==
    IF l.rps_interval > 0
    THEN LET t1 == IF RpsWait(l, t) > 0 THEN t + RpsWait(l, t) ELSE t
         IN SeqAcquireLoop([l EXCEPT !.last_request_time = t1], t1)
    ELSE SeqAcquireLoop(l, t)

\* -------------------------------------------------------- HybridLLMClient
\* HybridLLMClient._get_execution_order
GetExecutionOrder(c) ==
    IF c.primary_provider = "openai"
    THEN (IF c.openai_client THEN <<"OpenAI">> ELSE <<>>)
         \o (IF c.gemini_client THEN <<"Gemini">> ELSE <<>>)
    ELSE (IF c.gemini_client THEN <<"Gemini">> ELSE <<>>)
         \o (IF c.openai_client THEN <<"OpenAI">> ELSE <<>>)

\* a plausible slip: a rate-limited adapter is skipped without a record
RecordErrorHardOnly(errors, name, m) ==
    IF IsRateLimit(m) THEN errors
    ELSE Append(errors, [client |-> name, reason |-> m])
\* errors.append(f"{client_name}: Rate Limit") / errors.append(f"{client_name}: {str(e)}")
RecordError(errors, name, m) ==
    IF IsRateLimit(m) THEN Append(errors, [client |-> name, reason |-> <<"Rate", "Limit">>])
    ELSE Append(errors, [client |-> name, reason |-> m])

\* One generate() call in progress: the Gemini limiter, the clock, the errors
\* list, and as history what was done to each adapter and the tokens taken.
NewCall(l, t) ==
    [lim |-> l, t |-> t, errors |-> <<>>, result |-> <<"none">>,
     attempts |-> <<>>, calls |-> [a \in Adapters |-> 0], tokens |-> 0]
Attempted(R, name, event) ==
    [R EXCEPT !.attempts = Append(@, [client |-> name, event |-> event])]

\* the except branch of the loop body
CallFailed(R, name, m, event) ==
    [Attempted(R, name, event) EXCEPT !.errors = RecordError(@, name, m)]

\* client.generate(prompt, ...) of one adapter, after admission.
\* GeminiClient.generate enters "async with self.rate_limiter" (acquire())
\* before the model call; OpenAIClient.generate calls the model directly.
AdapterGenerate(R, name, outcome) ==
    LET R1 == [R EXCEPT !.calls[name] = @ + 1]
    IN IF name = "Gemini"
       THEN LET a == SeqAcquire(R1.lim, R1.t)
                R2 == [R1 EXCEPT !.lim = a.lim, !.t = a.t,
                                 !.tokens = IF a.err THEN @ ELSE @ + 1]
            IN IF a.err THEN CallFailed(R2, name, MsgZeroDiv, "generate_raised")
               ELSE IF outcome = <<"ok">>
                    THEN [Attempted(R2, name, "returned") EXCEPT !.result = <<"text", name>>]
                    ELSE CallFailed(R2, name, outcome, "generate_raised")
       ELSE IF outcome = <<"ok">>
            THEN [Attempted(R1, name, "returned") EXCEPT !.result = <<"text", name>>]
            ELSE CallFailed(R1, name, outcome, "generate_raised")

\* the loop body of HybridLLMClient.generate for one adapter
Attempt(R, name, outcome) ==
    IF ~HasRateLimiter(name)
    THEN CallFailed(R, name, MsgNoLimiter, "admission_raised")   \* AttributeError, in the try
    ELSE LET ta == SeqTryAcquire(R.lim, R.t)
         IN IF ~ta.ok
            THEN Attempted([R EXCEPT !.lim = ta.lim], name, "denied")      \* continue
            ELSE AdapterGenerate([R EXCEPT !.lim = ta.lim, !.tokens = @ + 1], name, outcome)

\* HybridLLMClient.generate: for client_name, client in clients ... raise
RECURSIVE GenerateLoop(_, _, _, _)
GenerateLoop(R, order, i, plan) ==
    IF i > Len(order) THEN [R EXCEPT !.result = <<"raised">>]
    ELSE LET R1 == Attempt(R, order[i], plan[order[i]])
         IN IF R1.result # <<"none">> THEN R1
            ELSE GenerateLoop(R1, order, i + 1, plan)
HybridGenerate(c, l, t, plan) == GenerateLoop(NewCall(l, t), GetExecutionOrder(c), 1, plan)

NoCall ==
    [plan |-> [a \in Adapters |-> <<"ok">>], order |-> <<>>, start |-> 0,
     result |-> <<"none">>, errors |-> <<>>, attempts |-> <<>>,
     calls |-> [a \in Adapters |-> 0], tokens |-> 0]

\* ------------------------------------- the parts a specification leaves out
LimIdle ==
    /\ lim = NewLimiter(0, 0, 0)
    /\ tpc = [t \in Tasks |-> "idle"]
    /\ twake = [t \in Tasks |-> 0]
    /\ tres = [t \in Tasks |-> "none"]
    /\ admitted = 0
    /\ refilled = 0
    /\ admit_at = 0

DispIdle ==
    /\ hc = [primary_provider |-> "openai", openai_client |-> FALSE, gemini_client |-> FALSE]
    /\ glim = NewLimiter(GeminiRpm, 0, 0)
    /\ dlast = NoCall

\* nobody has assigned _openai_client, _hybrid_client or the genai configuration
NoWrites == [openai_client |-> {}, hybrid_client |-> {}, genai |-> {}]
FactIdle ==
    /\ fenv = [openai_key |-> FALSE, gemini_key |-> FALSE]
    /\ g_openai_client = FALSE
    /\ g_gemini_client = 0
    /\ g_hybrid_client = 0
    /\ fclients = <<>>
    /\ flims = <<>>
    /\ fadmitted = 0
    /\ gwrites = NoWrites

\* ContractState(raw_text=..., metadata=...): texts are kept by their length,
\* metadata by the keys the stages read, collections by their entries' shape.
NewContractState(raw_text, metadata) ==
    [raw_text |-> raw_text, metadata |-> metadata, jurisdiction |-> [country |-> "absent"],
     clauses |-> <<>>, retrieved_statutes |-> 0, compliance_findings |-> <<>>,
     risk_summary |-> "unset", drafted_clauses |-> <<>>,
     final_contract |-> [kind |-> "default", n |-> 0], audit_log |-> <<>>]
NoMetadata ==
    [parties |-> "list", jurisdiction |-> FALSE, detected_intent |-> "unset",
     policy_warnings |-> "unset", policy_block |-> "unset"]

PipeIdle ==
    /\ state = NewContractState(0, NoMetadata)
    /\ orch = [pc |-> "idle"]
\* no call of a legacy agent (RiskAgent, ClauseAgent) is being looked at
AgentIdle ==
    /\ finding = <<>>
    /\ rlevel = <<>>
    /\ ctext = <<>>
    /\ csplit = <<>>
    /\ contract_text = <<>>
    /\ cleaned_text = <<>>
    /\ analysis = <<>>

\* ----------------------------------------------------- SpecDispatch actions
\* await client.generate(prompt): plan is what each adapter's model call
\* would do in this call.  The call may sleep in GeminiClient's acquire().
DispGenerate(plan) ==
    \E R \in {HybridGenerate(hc, glim, now, plan)} :
       /\ R.t <= MaxTime
       /\ now' = R.t
       /\ glim' = R.lim
       /\ dlast' = [plan |-> plan, order |-> GetExecutionOrder(hc), start |-> now,
                    result |-> R.result, errors |-> R.errors, attempts |-> R.attempts,
                    calls |-> R.calls, tokens |-> R.tokens]
       /\ UNCHANGED <<hc, limVars, factVars, pipeVars, agentVars>>
DispTick ==
    /\ now < MaxTime
    /\ now' = now + 1
    /\ UNCHANGED <<limVars, dispVars, factVars, pipeVars, agentVars>>

InitDispatch ==
    /\ now = 0
    /\ LimIdle
    /\ PipeIdle
    /\ AgentIdle
    /\ hc \in [primary_provider : {"openai", "google"},
               openai_client : BOOLEAN, gemini_client : BOOLEAN]
    /\ glim = NewLimiter(GeminiRpm, 0, now)
    /\ dlast = NoCall
    /\ FactIdle

NextDispatch ==
    \/ \E plan \in [Adapters -> Outcomes] : DispGenerate(plan)
    \/ DispTick

SpecDispatch == InitDispatch /\ [][NextDispatch]_vars

\* ------------------------------------------------------- client factories
MaxHybridClients == 2
MaxGeminiClients == 2
\* the horizon of SpecFactory: time passes there only while acquire() sleeps
FactMaxTime == 3

\* The module globals and the instances as one value.
FactState ==
    [openai |-> g_openai_client, gemini |-> g_gemini_client, hybrid |-> g_hybrid_client,
     clients |-> fclients, lims |-> flims, ret |-> 0]
FactApply(F) ==
    /\ g_openai_client' = F.openai
    /\ g_gemini_client' = F.gemini
    /\ g_hybrid_client' = F.hybrid
    /\ fclients' = F.clients
    /\ flims' = F.lims

\* get_gemini_client(): "if _gemini_client is None ...: return GeminiClient(model=model)";
\* the global is never assigned.  ret: the limiter of the client returned
\* (0: GeminiClient.__init__ raised ValueError, no key).
GetGeminiClient(F) ==
    IF F.gemini = 0
    THEN IF fenv.gemini_key
         THEN [F EXCEPT !.lims = Append(@, NewLimiter(GeminiRpm, 0, now)),
                        !.ret = Len(F.lims) + 1]
         ELSE [F EXCEPT !.ret = 0]
    ELSE [F EXCEPT !.ret = F.gemini]
\* get_openai_client(): ret = 1 when a client is returned, 0 when it raised
GetOpenAIClient(F) ==
    IF F.openai THEN [F EXCEPT !.ret = 1]
    ELSE IF fenv.openai_key THEN [F EXCEPT !.openai = TRUE, !.ret = 1]
    ELSE [F EXCEPT !.ret = 0]
\* HybridLLMClient.__init__(primary_provider): ret = the new client
NewHybridClient(F, primary) ==
    LET F1 == GetOpenAIClient(F)
        F2 == GetGeminiClient(F1)
    IN [F2 EXCEPT !.clients = Append(@, [primary_provider |-> primary,
                                          openai_client |-> F1.ret = 1,
                                          gemini_client |-> F2.ret]),
                  !.ret = Len(F2.clients) + 1]
\* get_hybrid_client()
GetHybridClient(F) ==
    IF F.hybrid = 0
    THEN LET F1 == NewHybridClient(F, "openai") IN [F1 EXCEPT !.hybrid = F1.ret]
    ELSE [F EXCEPT !.ret = F.hybrid]
\* a variant of get_llm_client that hands out the shared default client
\* whatever provider is asked for
GetLlmClientSharedOnly(F, provider) == GetHybridClient(F)
\* get_llm_client(provider)
GetLlmClient(F, provider) ==
    IF provider = "openai" THEN NewHybridClient(F, "openai")
    ELSE IF provider = "google" THEN NewHybridClient(F, "google")
    ELSE GetHybridClient(F)

\* what HybridLLMClient.generate is given of client c
FactClient(c) ==
    [primary_provider |-> fclients[c].primary_provider,
     openai_client |-> fclients[c].openai_client,
     gemini_client |-> fclients[c].gemini_client # 0]

\* ------------------------------------------------------ SpecFactory actions
NumRequests == 2
Requests == 1..NumRequests
\* the startup hook of main.py, which is no request
Startup == 0

\* What a call that took the globals and instances to F assigned, by caller r:
\* "_openai_client = OpenAIClient()", "_hybrid_client = HybridLLMClient()", and
\* "genai.configure(api_key=...)" in the __init__ of each GeminiClient built.
FactWrites(F, r) ==
    [openai_client |-> IF F.openai # g_openai_client
                       THEN gwrites.openai_client \cup {r} ELSE gwrites.openai_client,
     hybrid_client |-> IF F.hybrid # g_hybrid_client
                       THEN gwrites.hybrid_client \cup {r} ELSE gwrites.hybrid_client,
     genai |-> IF Len(F.lims) > Len(flims) THEN gwrites.genai \cup {r} ELSE gwrites.genai]

\* main.py startup: "client = get_llm_client()", before any request is served
FactStartup ==
    /\ fclients = <<>> /\ flims = <<>> /\ gwrites = NoWrites
    /\ \E F \in {GetLlmClient(FactState, "none")} :
           /\ FactApply(F)
           /\ gwrites' = FactWrites(F, Startup)
    /\ UNCHANGED <<now, fenv, fadmitted, limVars, dispVars, pipeVars, agentVars>>
\* a stage of request r asks for a client
FactGetLlmClient(r, provider) ==
    \E F \in {GetLlmClient(FactState, provider)} :
        /\ Len(F.clients) <= MaxHybridClients
        /\ Len(F.lims) <= MaxGeminiClients
        /\ FactApply(F)
        /\ gwrites' = FactWrites(F, r)
        /\ UNCHANGED <<now, fenv, fadmitted, limVars, dispVars, pipeVars, agentVars>>
\* api/compliance.py, api/drafting.py, services/compliance_service.py
FactGetGeminiClient(r) ==
    \E F \in {GetGeminiClient(FactState)} :
        /\ Len(F.lims) <= MaxGeminiClients
        /\ FactApply(F)
        /\ gwrites' = FactWrites(F, r)
        /\ UNCHANGED <<now, fenv, fadmitted, limVars, dispVars, pipeVars, agentVars>>
\* await client.generate(prompt) on HybridLLMClient c
FactGenerate(c, plan) ==
    /\ c \in DOMAIN fclients
    /\ LET g == fclients[c].gemini_client
       IN \E R \in {HybridGenerate(FactClient(c),
                                   IF g = 0 THEN NewLimiter(GeminiRpm, 0, 0) ELSE flims[g],
                                   now, plan)} :
           /\ R.t <= FactMaxTime
           /\ now' = R.t
           /\ flims' = IF g = 0 THEN flims ELSE [flims EXCEPT ![g] = R.lim]
           /\ fadmitted' = fadmitted + R.calls["Gemini"]
    /\ UNCHANGED <<fenv, g_openai_client, g_gemini_client, g_hybrid_client, fclients,
                   gwrites, limVars, dispVars, pipeVars, agentVars>>
\* await llm_client.generate(prompt) on the GeminiClient owning limiter i
FactGeminiGenerate(i) ==
    /\ i \in DOMAIN flims
    /\ \E a \in {SeqAcquire(flims[i], now)} :
           /\ a.t <= FactMaxTime
           /\ now' = a.t
           /\ flims' = [flims EXCEPT ![i] = a.lim]
           /\ fadmitted' = fadmitted + 1
    /\ UNCHANGED <<fenv, g_openai_client, g_gemini_client, g_hybrid_client, fclients,
                   gwrites, limVars, dispVars, pipeVars, agentVars>>
InitFactory ==
    /\ now = 0
    /\ LimIdle
    /\ DispIdle
    /\ PipeIdle
    /\ AgentIdle
    /\ fenv \in [openai_key : BOOLEAN, gemini_key : BOOLEAN]
    /\ g_openai_client = FALSE
    /\ g_gemini_client = 0
    /\ g_hybrid_client = 0
    /\ fclients = <<>>
    /\ flims = <<>>
    /\ fadmitted = 0
    /\ gwrites = NoWrites

NextFactory ==
    \/ FactStartup
    \/ \E r \in Requests, provider \in {"none", "openai", "google"} : FactGetLlmClient(r, provider)
    \/ \E r \in Requests : FactGetGeminiClient(r)
    \/ \E c \in 1..MaxHybridClients, plan \in [Adapters -> {<<"ok">>, Msg429}] :
           FactGenerate(c, plan)
    \/ \E i \in 1..MaxGeminiClients : FactGeminiGenerate(i)

SpecFactory == InitFactory /\ [][NextFactory]_vars

\* C8: the generation calls admitted to the Gemini backend, over every client
\* handed out by get_llm_client / get_gemini_client / HybridLLMClient(), are
\* bounded by one bucket: its capacity rpm plus what was refilled since the
\* process started (one unit per tick).
C8_OneBucketBoundsAdmissions ==
    fadmitted * TicksPerToken <= GeminiRpm * TicksPerToken + now

\* ------------------------------------------------------ SpecLimiter actions
Acquire(t) ==
    /\ tpc[t] = "idle"
    /\ LimApply(AcqStart(LimState, t))
    /\ UNCHANGED <<now, dispVars, factVars, pipeVars, agentVars>>
AcquireGotRpsLock(t) ==
    /\ tpc[t] = "a_wait_rps" /\ lim.rps_lock.holder = t
    /\ LimApply(AcqRpsCrit(LimState, t))
    /\ UNCHANGED <<now, dispVars, factVars, pipeVars, agentVars>>
AcquireRpsWake(t) ==
    /\ tpc[t] = "a_rps_sleep" /\ now >= twake[t]
    /\ LimApply(AcqRpsExit(LimState, t))
    /\ UNCHANGED <<now, dispVars, factVars, pipeVars, agentVars>>
AcquireGotRpmLock(t) ==
    /\ tpc[t] = "a_wait_rpm" /\ lim.rpm_lock.holder = t
    /\ LimApply(AcqRpmLoop(LimState, t))
    /\ UNCHANGED <<now, dispVars, factVars, pipeVars, agentVars>>
AcquireRpmWake(t) ==
    /\ tpc[t] = "a_rpm_sleep" /\ now >= twake[t]
    /\ LimApply(AcqRpmLoop(LimState, t))
    /\ UNCHANGED <<now, dispVars, factVars, pipeVars, agentVars>>
TryAcquire(t) ==
    /\ tpc[t] = "idle"
    /\ LimApply(TryStart(LimState, t))
    /\ UNCHANGED <<now, dispVars, factVars, pipeVars, agentVars>>
TryGotRpsLock(t) ==
    /\ tpc[t] = "t_wait_rps" /\ lim.rps_lock.holder = t
    /\ LimApply(TryRpsCrit(LimState, t))
    /\ UNCHANGED <<now, dispVars, factVars, pipeVars, agentVars>>
TryGotRpmLock(t) ==
    /\ tpc[t] = "t_wait_rpm" /\ lim.rpm_lock.holder = t
    /\ LimApply(TryRpmCrit(LimState, t))
    /\ UNCHANGED <<now, dispVars, factVars, pipeVars, agentVars>>
LimTick ==
    /\ now < MaxTime
    /\ now' = now + 1
    /\ UNCHANGED <<limVars, dispVars, factVars, pipeVars, agentVars>>

InitLimiter ==
    /\ now \in {0, RpsGap}
    /\ \E r \in 0..MaxRpm, g \in {0, RpsGap} : lim = NewLimiter(r, g, now)
    /\ tpc = [t \in Tasks |-> "idle"]
    /\ twake = [t \in Tasks |-> 0]
    /\ tres = [t \in Tasks |-> "none"]
    /\ admitted = 0
    /\ refilled = 0
    /\ admit_at = 0
    /\ DispIdle
    /\ FactIdle
    /\ PipeIdle
    /\ AgentIdle

NextLimiter ==
    \/ \E t \in Tasks : Acquire(t)
    \/ \E t \in Tasks : AcquireGotRpsLock(t)
    \/ \E t \in Tasks : AcquireRpsWake(t)
    \/ \E t \in Tasks : AcquireGotRpmLock(t)
    \/ \E t \in Tasks : AcquireRpmWake(t)
    \/ \E t \in Tasks : TryAcquire(t)
    \/ \E t \in Tasks : TryGotRpsLock(t)
    \/ \E t \in Tasks : TryGotRpmLock(t)
    \/ LimTick

SpecLimiter == InitLimiter /\ [][NextLimiter]_vars

\* ------------------------------------------------------ C3..C7 (dispatcher)
DispDone == dlast.result # <<"none">>
DispDenied(name) ==
    \E i \in DOMAIN dlast.attempts :
        dlast.attempts[i] = [client |-> name, event |-> "denied"]
\* adapter i of the order is not locally rate limited and its model call returns
DispServes(i) ==
    /\ ~DispDenied(dlast.order[i])
    /\ dlast.plan[dlast.order[i]] = <<"ok">>

\* C3: generate returns the text of the first adapter, in execution order,
\* whose rate limiter admits the call and whose generate returns; no adapter
\* after it is invoked, at most one adapter call succeeds; in particular an
\* available primary whose call succeeds is the one that answers.
C3_FirstServingAdapterAnswers ==
    DispDone =>
        /\ \A i \in DOMAIN dlast.order :
              (DispServes(i) /\ \A j \in 1..(i - 1) : ~DispServes(j))
                  => /\ dlast.result = <<"text", dlast.order[i]>>
                     /\ Len(dlast.attempts) = i
        /\ Cardinality({i \in DOMAIN dlast.attempts :
                            dlast.attempts[i].event = "returned"}) <= 1

\* C4: with two adapters where the first adapter's generate always raises a
\* rate-limit error and the second adapter is admitted and returns, generate
\* returns the second adapter's output and the first adapter's generate is
\* invoked at most once.
C4_RateLimitedFirstFallsToSecond ==
    ( /\ DispDone
      /\ Len(dlast.order) = 2
      /\ dlast.plan[dlast.order[1]] = Msg429
      /\ DispServes(2) )
    => /\ dlast.result = <<"text", dlast.order[2]>>
       /\ dlast.calls[dlast.order[1]] <= 1

\* C5: an adapter whose try_acquire() returns false is not invoked, gets no
\* entry in the errors list, and the next adapter in order is tried; so a
\* locally exhausted primary is answered by the secondary.
C5_DeniedAdapterIsSkipped ==
    DispDone =>
        \A i \in DOMAIN dlast.attempts :
            dlast.attempts[i].event = "denied" =>
                /\ dlast.calls[dlast.attempts[i].client] = 0
                /\ \A k \in DOMAIN dlast.errors :
                       dlast.errors[k].client # dlast.attempts[i].client
                /\ i < Len(dlast.order) =>
                       /\ Len(dlast.attempts) > i
                       /\ dlast.attempts[i + 1].client = dlast.order[i + 1]
                /\ (i = 1 /\ Len(dlast.order) = 2 /\ DispServes(2))
                       => dlast.result = <<"text", dlast.order[2]>>

\* C6: generate raises only after every adapter of the execution order has
\* been attempted or skipped, none with success, and the errors it raises
\* with hold, in attempt order, one entry for every adapter whose call raised.
C6_RaiseAggregatesFailures ==
    dlast.result = <<"raised">> =>
        LET failed == SelectSeq(dlast.attempts,
                         LAMBDA a : a.event \in {"generate_raised", "admission_raised"})
        IN /\ Len(dlast.attempts) = Len(dlast.order)
           /\ \A i \in DOMAIN dlast.attempts :
                  /\ dlast.attempts[i].client = dlast.order[i]
                  /\ dlast.attempts[i].event # "returned"
           /\ Len(dlast.errors) = Len(failed)
           /\ \A k \in DOMAIN dlast.errors : dlast.errors[k].client = failed[k].client
           /\ \A a \in Adapters :
                  dlast.calls[a] >= 1 =>
                      Cardinality({k \in DOMAIN dlast.errors : dlast.errors[k].client = a}) = 1
\* both adapters were held, Gemini's model call raised a 429, and the call raised
C6_Witness ==
    /\ dlast.result = <<"raised">>
    /\ Len(dlast.order) = 2
    /\ dlast.calls["Gemini"] = 1
    /\ \E k \in DOMAIN dlast.errors :
           dlast.errors[k] = [client |-> "Gemini", reason |-> <<"Rate", "Limit">>]

\* C7: every adapter the dispatcher holds owns a rate limiter, and the
\* admission step is never the reason an adapter is recorded as failed.
C7_AdmissionNeverFails ==
    /\ \A i \in DOMAIN dlast.order : HasRateLimiter(dlast.order[i])
    /\ \A i \in DOMAIN dlast.attempts : dlast.attempts[i].event # "admission_raised"


\* ---------------------------------------------------------------- C9
\* C9: try_acquire() never sleeps and never waits: in every interleaving with
\* other callers of the same limiter no try_acquire() caller is ever
\* suspended, and with the tokens exhausted it answers false.
C9_TryAcquireNeverWaits ==
    lim.rpm > 0 => \A t \in Tasks : tpc[t] \notin {"t_wait_rps", "t_wait_rpm"}

\* ---------------------------------------------------------------- C10
\* C10: refill-then-decrement is atomic.  rpm_tokens stays within 0..rpm,
\* every token taken is accounted for (taken + left = initial + refilled, so
\* no token admits two callers and admitted <= initial + refilled), and a
\* caller suspended inside the rpm section is the holder of rpm_lock.
C10_RefillDecrementAtomic ==
    /\ lim.rpm_tokens >= 0
    /\ lim.rpm_tokens <= lim.rpm * TicksPerToken
    /\ admitted * TicksPerToken + lim.rpm_tokens = lim.rpm * TicksPerToken + refilled
    /\ admitted * TicksPerToken <= lim.rpm * TicksPerToken + refilled
    /\ \A t \in Tasks : tpc[t] = "a_rpm_sleep" => lim.rpm_lock.holder = t
    /\ \A t \in Tasks : tpc[t] \in {"a_wait_rpm", "t_wait_rpm"} =>
            \/ lim.rpm_lock.holder = t
            \/ \E i \in DOMAIN lim.rpm_lock.waiters : lim.rpm_lock.waiters[i] = t
\* a refilled token has been taken while one caller sleeps for a refill and
\* another queues for the lock
C10_Witness ==
    /\ admitted > lim.rpm
    /\ \E t \in Tasks : tpc[t] = "a_rpm_sleep"
    /\ lim.rpm_lock.waiters # <<>>

\* ------------------------------------------------------ texts, by length
MinContractLen == 100
MaxSections == 2
\* lengths of the texts a model returns: none, short, long
TextLens == {0, MinContractLen - 60, MinContractLen + 20}

RECURSIVE WordsLen(_)
WordsLen(m) == IF m = <<>> THEN 0 ELSE Len(Head(m)) + WordsLen(Tail(m))
\* len(str(e)) of an exception text
StrLen(m) == IF m = <<>> THEN 0 ELSE WordsLen(m) + (Len(m) - 1)
\* len(f"{client_name}: {str(e)}"), len(f"{client_name}: Rate Limit")
ErrorEntryLen(e) == Len(e.client) + Len(": ") + StrLen(e.reason)
RECURSIVE EntriesLen(_)
EntriesLen(errors) ==
    IF errors = <<>> THEN 0
    ELSE (ErrorEntryLen(Head(errors)) + 2) + EntriesLen(Tail(errors))
\* len(str(errors)): brackets, each entry quoted, ", " between entries
ListReprLen(errors) ==
    2 + EntriesLen(errors) + (IF errors = <<>> THEN 0 ELSE 2 * (Len(errors) - 1))
\* len of f"HybridClient: All providers failed. Errors: {errors}"
RaiseTextLen(errors) == Len("HybridClient: All providers failed. Errors: ") + ListReprLen(errors)

HybridConfigs ==
    [primary_provider : {"openai", "google"}, openai_client : BOOLEAN, gemini_client : BOOLEAN]
\* the errors lists HybridLLMClient.generate can raise with: every client
\* configuration, the Gemini bucket full or empty, every outcome of the calls
RaisedErrors ==
    LET full == NewLimiter(GeminiRpm, 0, 0)
        runs == {HybridGenerate(c, l, 0, plan) :
                    c \in HybridConfigs,
                    l \in {full, [full EXCEPT !.rpm_tokens = 0]},
                    plan \in [Adapters -> Outcomes]}
    IN {R.errors : R \in {X \in runs : X.result = <<"raised">>}}
\* what "await llm.generate(prompt)" does, as a stage sees it
LlmRaises == {[kind |-> "raise", n |-> RaiseTextLen(errors)] : errors \in RaisedErrors}
LlmTexts == {[kind |-> "text", n |-> n] : n \in TextLens}

\* a log that puts the new entry first
AddAuditLogInFront(S, agent_name, action) ==
    [S EXCEPT !.audit_log = <<[agent |-> agent_name, action |-> action]>> \o @]
AddAuditLog(S, agent_name, action) ==
    [S EXCEPT !.audit_log = Append(@, [agent |-> agent_name, action |-> action])]

\* ------------------------------------------------------ drafting pipeline
\* The answer of the model to a stage that asks for JSON, by what the stage
\* does with it: llm.generate raised; json.loads raised; the parsed value is
\* no dict; a dict of the expected shape; a dict with a value of another shape.
IntentOutcomes == {"raise", "unparsable", "nondict", "ok", "intent_nonstr", "entities_unsized"}
PolicyOutcomes ==
    {[kind |-> k, warnings |-> "empty"] : k \in {"raise", "unparsable", "nondict"}}
    \cup {[kind |-> k, warnings |-> w] : k \in {"pass", "block"}, w \in {"empty", "list", "int"}}
TemplateOutcomes == {"raise", "unparsable", "nondict", "ok", "sections_unsized"}
ReviewOutcomes == {"raise", "unparsable", "nondict", "ok", "issues_unsized"}

\* generated_text.split("\n## "): a section by its stripped length n, the
\* whitespace strip() removes, and whether it starts with "#"
Sections ==
    {[head |-> FALSE, n |-> 0, pad |-> p] : p \in {0, 1}}
    \cup {[head |-> h, n |-> n, pad |-> 0] : h \in BOOLEAN, n \in TextLens \ {0}}
RECURSIVE SeqsUpTo(_, _)
SeqsUpTo(S, k) ==
    IF k = 0 THEN {<<>>}
    ELSE LET shorter == SeqsUpTo(S, k - 1)
         IN shorter \cup {Append(q, x) : q \in {r \in shorter : Len(r) = k - 1}, x \in S}
GeneratedTexts ==
    {[kind |-> "text", sections |-> ss] : ss \in SeqsUpTo(Sections, MaxSections) \ {<<>>}}

\* IntentAnalysisAgent.process
IntentAnalysis(S, out) ==
    CASE out = "ok" ->
            AddAuditLog([S EXCEPT !.metadata.detected_intent = "str"], "IntentAnalysis", "Analyze")
      [] out = "intent_nonstr" ->
            AddAuditLog([S EXCEPT !.metadata.detected_intent = "nonstr"], "IntentAnalysis", "Analyze")
      [] out = "unparsable" ->
            AddAuditLog([S EXCEPT !.metadata.detected_intent = "str"], "IntentAnalysis", "Fallback")
      [] OTHER ->       \* except Exception: the LLM call, .get or len() raised
            AddAuditLog([S EXCEPT !.metadata.detected_intent = "str"], "IntentAnalysis", "Error")

\* PolicyCheckAgent.process
PolicyCheck(S, out) ==
    CASE out.kind = "block" ->
            AddAuditLog([S EXCEPT !.metadata.policy_warnings = out.warnings,
                                  !.metadata.policy_block = "set"],
                        "PolicyCheck", "Block")
      [] out.kind = "pass" /\ out.warnings # "int" ->
            AddAuditLog([S EXCEPT !.metadata.policy_warnings = out.warnings], "PolicyCheck", "Pass")
      [] out.kind = "unparsable" ->
            AddAuditLog([S EXCEPT !.metadata.policy_warnings = "empty"], "PolicyCheck", "Fallback")
      [] OTHER ->       \* except Exception, len(warnings) of a number included
            AddAuditLog([S EXCEPT !.metadata.policy_warnings = "empty"], "PolicyCheck", "Error")

\* TemplateSelectionAgent.process: detected_intent.replace(...) is evaluated
\* in the try, whatever the template key
TemplateSelection(S, out) ==
    CASE out = "ok" /\ S.metadata.detected_intent = "str" ->
            AddAuditLog(S, "TemplateSelection", "Select")
      [] out = "unparsable" -> AddAuditLog(S, "TemplateSelection", "Fallback")
      [] OTHER -> AddAuditLog(S, "TemplateSelection", "Error")

\* the clause of section i (1-based here, enumerate counts from 0)
ClauseOfSection(i, sec) ==
    IF i = 1 /\ ~sec.head
    THEN [title |-> "Preamble", n |-> sec.n, type |-> "llm_generated"]
    ELSE [title |-> "heading", n |-> IF i > 1 THEN Len("## ") + sec.n ELSE sec.n,
          type |-> "llm_generated"]
RECURSIVE ParseClauses(_, _)
ParseClauses(sections, i) ==
    IF i > Len(sections) THEN <<>>
    ELSE IF sections[i].n = 0 THEN ParseClauses(sections, i + 1)      \* continue
    ELSE <<ClauseOfSection(i, sections[i])>> \o ParseClauses(sections, i + 1)
RECURSIVE GeneratedLen(_)
GeneratedLen(sections) ==
    IF sections = <<>> THEN 0
    ELSE Head(sections).n + Head(sections).pad
         + (IF Len(sections) > 1 THEN Len("## ") + 1 ELSE 0) + GeneratedLen(Tail(sections))

\* GenerationAgent.process: [state, exc, called]; the two list comprehensions
\* over parties and policy_warnings stand before the try
Generation(S, out) ==
    IF S.metadata.parties = "int" \/ S.metadata.policy_warnings = "int"
    THEN [state |-> S, exc |-> "TypeError", called |-> FALSE]
    ELSE IF out.kind = "raise"
    THEN [state |-> AddAuditLog(
                      [S EXCEPT !.drafted_clauses =
                          <<[title |-> "Error",
                             n |-> Len("Contract generation failed: ") + out.n
                                   + Len(". Please try again."),
                             type |-> "error"]>>],
                      "Generation", "Error"),
          exc |-> "none", called |-> TRUE]
    ELSE LET parsed == ParseClauses(out.sections, 1)
             clauses == IF parsed = <<>>
                        THEN <<[title |-> "Full Contract", n |-> GeneratedLen(out.sections),
                                type |-> "llm_generated"]>>
                        ELSE parsed
         IN [state |-> AddAuditLog([S EXCEPT !.drafted_clauses = clauses],
                                   "Generation", "Generate"),
             exc |-> "none", called |-> TRUE]

\* SelfReviewAgent.process: the review keys it adds to the clauses are not kept
SelfReview(S, out) ==
    IF S.drafted_clauses = <<>> THEN AddAuditLog(S, "SelfReview", "Skip")
    ELSE IF Len(S.drafted_clauses) = 1 /\ S.drafted_clauses[1].type = "error"
    THEN AddAuditLog(S, "SelfReview", "Skip")
    ELSE CASE out = "ok" -> AddAuditLog(S, "SelfReview", "Review")
           [] out = "unparsable" -> AddAuditLog(S, "SelfReview", "Fallback")
           [] OTHER -> AddAuditLog(S, "SelfReview", "Error")

\* len("\n\n".join([c.get("text", "") for c in state.drafted_clauses]))
RECURSIVE ClausesLen(_)
ClausesLen(clauses) ==
    IF clauses = <<>> THEN 0 ELSE Head(clauses).n + ClausesLen(Tail(clauses))
JoinedLen(clauses) ==
    ClausesLen(clauses) + (IF clauses = <<>> THEN 0 ELSE 2 * (Len(clauses) - 1))
\* an assembly that accepts any length
FinalAssemblyAcceptsShort(S) ==
    [state |-> [S EXCEPT !.final_contract =
                   [kind |-> "assembled", n |-> JoinedLen(S.drafted_clauses)]],
     exc |-> "none"]
\* run, "7. Final Assembly": [state, exc]
FinalAssembly(S) ==
    LET S1 == [S EXCEPT !.final_contract =
                   [kind |-> "assembled", n |-> JoinedLen(S.drafted_clauses)]]
    IN [state |-> S1,
        exc |-> IF S1.final_contract.n = 0 \/ S1.final_contract.n < MinContractLen
                THEN "ValueError" ELSE "none"]

\* DraftingOrchestrator._run_fallback
RunFallback(S, out) ==
    IF out.kind = "raise"
    THEN AddAuditLog([S EXCEPT !.final_contract =
                         [kind |-> "error",
                          n |-> Len("Error: Could not generate contract. ") + out.n]],
                     "DraftingOrchestrator", "Total Failure")
    ELSE AddAuditLog([S EXCEPT !.final_contract = [kind |-> "response", n |-> out.n]],
                     "DraftingOrchestrator", "Fallback Success")
\* run: the except branch up to the await of the fallback's call
EnterFallback(S) == AddAuditLog(S, "DraftingOrchestrator", "Fallback")
\* run: the last two lines
DraftEnd(S) == AddAuditLog(S, "DraftingOrchestrator", "End")

\* -------------------------------------------------------- SpecDraft actions
\* DraftingOrchestrator.run(raw_requirements, metadata, provider), to its first await
DraftRun(raw_text, parties) ==
    /\ orch.pc \in {"idle", "done"}
    /\ state' = AddAuditLog(NewContractState(raw_text, [NoMetadata EXCEPT !.parties = parties]),
                            "DraftingOrchestrator", "Start")
    /\ orch' = [pc |-> "intent", gen_calls |-> 0, gen_raised |-> 0, fb_calls |-> 0]
    /\ UNCHANGED <<now, limVars, dispVars, factVars, agentVars>>
DraftIntent(out) ==
    /\ orch.pc = "intent"
    /\ state' = IntentAnalysis(state, out)
    /\ orch' = [orch EXCEPT !.pc = "policy"]
    /\ UNCHANGED <<now, limVars, dispVars, factVars, agentVars>>
DraftPolicy(out) ==
    /\ orch.pc = "policy"
    /\ state' = PolicyCheck(state, out)
    /\ orch' = [orch EXCEPT !.pc = "template"]
    /\ UNCHANGED <<now, limVars, dispVars, factVars, agentVars>>
DraftTemplate(out) ==
    /\ orch.pc = "template"
    /\ state' = TemplateSelection(state, out)
    /\ orch' = [orch EXCEPT !.pc = "generation"]
    /\ UNCHANGED <<now, limVars, dispVars, factVars, agentVars>>
DraftGeneration(out) ==
    /\ orch.pc = "generation"
    /\ \E R \in {Generation(state, out)} :
          IF R.exc # "none"
          THEN /\ state' = EnterFallback(R.state)
               /\ orch' = [orch EXCEPT !.pc = "fallback"]
          ELSE /\ state' = R.state
               /\ orch' = [orch EXCEPT !.pc = "review",
                                       !.gen_calls = @ + 1,
                                       !.gen_raised = IF out.kind = "raise" THEN @ + 1 ELSE @]
    /\ UNCHANGED <<now, limVars, dispVars, factVars, agentVars>>
DraftReview(out) ==
    /\ orch.pc = "review"
    /\ \E R \in {FinalAssembly(SelfReview(state, out))} :
          IF R.exc # "none"
          THEN /\ state' = EnterFallback(R.state)
               /\ orch' = [orch EXCEPT !.pc = "fallback"]
          ELSE /\ state' = DraftEnd(R.state)
               /\ orch' = [orch EXCEPT !.pc = "done"]
    /\ UNCHANGED <<now, limVars, dispVars, factVars, agentVars>>
DraftFallback(out) ==
    /\ orch.pc = "fallback"
    /\ state' = DraftEnd(RunFallback(state, out))
    /\ orch' = [orch EXCEPT !.pc = "done", !.fb_calls = @ + 1]
    /\ UNCHANGED <<now, limVars, dispVars, factVars, agentVars>>

InitDraft ==
    /\ now = 0
    /\ LimIdle
    /\ DispIdle
    /\ FactIdle
    /\ PipeIdle
    /\ AgentIdle

NextDraft ==
    \/ \E raw_text \in {0, MinContractLen - 60}, parties \in {"list", "int"} :
           DraftRun(raw_text, parties)
    \/ \E out \in IntentOutcomes : DraftIntent(out)
    \/ \E out \in PolicyOutcomes : DraftPolicy(out)
    \/ \E out \in TemplateOutcomes : DraftTemplate(out)
    \/ \E out \in LlmRaises \cup GeneratedTexts : DraftGeneration(out)
    \/ \E out \in ReviewOutcomes : DraftReview(out)
    \/ \E out \in LlmRaises \cup LlmTexts : DraftFallback(out)

SpecDraft == InitDraft /\ [][NextDraft]_vars

DraftHasEntry(action) ==
    \E i \in DOMAIN state.audit_log :
        state.audit_log[i] = [agent |-> "DraftingOrchestrator", action |-> action]

\* C1: a run in which the Generation stage's generation call raised ends
\* with a non-empty final_contract and with a "Fallback Success" or a
\* "Total Failure" entry in its audit_log.
C1_GenerationFailureEndsInFallback ==
    (orch.pc = "done" /\ orch.gen_calls > 0 /\ orch.gen_raised = orch.gen_calls)
    => /\ state.final_contract.n > 0
       /\ DraftHasEntry("Fallback Success") \/ DraftHasEntry("Total Failure")

\* ---------------------------------------------------- compliance pipeline
MaxClauses == 2

\* An entry of the list the extraction answer parses to: a dict with a
\* hashable 'id', a dict without 'id', a dict whose 'id' is a list, no dict.
ClauseShapes ==
    {[kind |-> "dict", id |-> i] : i \in {"1", "2", "absent", "list"}}
    \cup {[kind |-> "nondict", id |-> "absent"]}
\* A dict the reasoning answer parses to; "absent": the key is missing.
FindingShapes ==
    {[status |-> "compliant", risk_level |-> "low", reason |-> "llm", suggested_fix |-> "llm"],
     [status |-> "violation", risk_level |-> "high", reason |-> "llm", suggested_fix |-> "llm"],
     [status |-> "warning", risk_level |-> "medium", reason |-> "llm", suggested_fix |-> "llm"],
     [status |-> "absent", risk_level |-> "low", reason |-> "llm", suggested_fix |-> "llm"]}
JurisdictionOutcomes == {"raise", "nomatch", "unparsable", "India", "Other", "absent"}
ExtractionOutcomes ==
    {[kind |-> k, clauses |-> <<>>] : k \in {"raise", "nomatch", "unparsable"}}
    \cup {[kind |-> "list", clauses |-> cs] : cs \in SeqsUpTo(ClauseShapes, MaxClauses)}
RetrievalOutcomes == {"raise", "none", "docs"}
ReasoningOutcomes ==
    {[kind |-> k, finding |-> <<>>] : k \in {"raise", "nomatch", "unparsable"}}
    \cup {[kind |-> "finding", finding |-> f] : f \in FindingShapes}

\* IngestionAgent.process
Ingestion(S) ==
    IF S.raw_text = 0 THEN S ELSE AddAuditLog(S, "IngestionAgent", "Process")

\* JurisdictionResolverAgent.process
JurisdictionResolver(S, out) ==
    IF S.metadata.jurisdiction
    THEN AddAuditLog([S EXCEPT !.jurisdiction = [country |-> "India"]],
                     "JurisdictionResolver", "Check")
    ELSE CASE out \in {"raise", "unparsable"} ->          \* except: no audit entry
                 [S EXCEPT !.jurisdiction = [country |-> "India"]]
           [] out = "nomatch" ->
                 AddAuditLog([S EXCEPT !.jurisdiction = [country |-> "India"]],
                             "JurisdictionResolver", "Inference")
           [] OTHER ->
                 AddAuditLog([S EXCEPT !.jurisdiction = [country |-> out]],
                             "JurisdictionResolver", "Inference")

\* ClauseExtractorAgent.process
ClauseExtractor(S, out) ==
    AddAuditLog([S EXCEPT !.clauses = IF out.kind = "list" THEN out.clauses
                                      ELSE <<[kind |-> "dict", id |-> "1"]>>],
                "ClauseExtractor", "Extract")

\* StatuteRetrievalAgent.process; the vector store is outside this code
StatuteRetrieval(S, out) ==
    CASE out = "raise" -> [AddAuditLog(S, "StatuteRetrieval", "Error")
                              EXCEPT !.retrieved_statutes = 0]
      [] out = "none" -> AddAuditLog([S EXCEPT !.retrieved_statutes = 0],
                                     "StatuteRetrieval", "Search")
      [] OTHER -> AddAuditLog([S EXCEPT !.retrieved_statutes = 1],
                              "StatuteRetrieval", "Search")

\* findings keyed by the clause's title instead of its id
PutFindingByTitle(findings, key, value) ==
    [k \in DOMAIN findings \cup {"title"} |-> IF k = "title" THEN value ELSE findings[k]]
\* findings[key] = value
PutFinding(findings, key, value) ==
    [k \in DOMAIN findings \cup {key} |-> IF k = key THEN value ELSE findings[k]]
ErrorFinding ==
    [status |-> "error", risk_level |-> "high", reason |-> "Analysis error",
     suggested_fix |-> "support"]
\* ComplianceReasoningAgent.process, the loop body for one clause:
\* [findings, exc].  clause.get(...) stands before the try; the except
\* handler reads clause['id'] again, for the log line and for the entry.
ReasonClause(findings, clause, out) ==
    IF clause.kind = "nondict" THEN [findings |-> findings, exc |-> "AttributeError"]
    ELSE IF clause.id = "absent" THEN [findings |-> findings, exc |-> "KeyError"]
    ELSE IF clause.id = "list" THEN [findings |-> findings, exc |-> "TypeError"]
    ELSE IF out.kind = "finding"
    THEN [findings |-> PutFinding(findings, clause.id, out.finding), exc |-> "none"]
    ELSE [findings |-> PutFinding(findings, clause.id, ErrorFinding), exc |-> "none"]
\* ComplianceReasoningAgent.process, after the loop
ReasoningDone(S, findings) ==
    AddAuditLog([S EXCEPT !.compliance_findings = findings], "ComplianceReasoning", "Analyze")

\* the keys of the findings dict in insertion order: the clauses' ids in the
\* order of their first appearance
RECURSIVE FindingOrder(_, _)
FindingOrder(clauses, seen) ==
    IF clauses = <<>> THEN <<>>
    ELSE LET c == Head(clauses)
         IN IF c.kind = "dict" /\ c.id \notin {"absent", "list"} /\ c.id \notin seen
            THEN <<c.id>> \o FindingOrder(Tail(clauses), seen \cup {c.id})
            ELSE FindingOrder(Tail(clauses), seen)
\* the loop of RemediationAgent.process over the first n keys
Remediated(F, order, n) ==
    [k \in DOMAIN F |->
        IF (\E i \in 1..n : order[i] = k) /\ F[k].status # "compliant"
        THEN [F[k] EXCEPT !.suggested_fix = "rewrite"]
        ELSE F[k]]
\* a remediation that also marks what it rewrote
RemediationMarksStatus(S) ==
    LET F == S.compliance_findings
    IN [state |-> AddAuditLog(
                     [S EXCEPT !.compliance_findings =
                         [k \in DOMAIN F |->
                             IF F[k].status # "compliant"
                             THEN [F[k] EXCEPT !.suggested_fix = "rewrite",
                                               !.status = "remediated"]
                             ELSE F[k]]],
                     "Remediation", "Suggest"),
        exc |-> "none"]
\* RemediationAgent.process: [state, exc]; finding["status"] raises KeyError
\* at the first finding without the key, the findings before it are rewritten
Remediation(S) ==
    LET F == S.compliance_findings
        order == FindingOrder(S.clauses, {})
        bad == {i \in DOMAIN order : F[order[i]].status = "absent"}
    IN IF bad # {}
       THEN LET stop == CHOOSE i \in bad : \A j \in bad : i <= j
            IN [state |-> [S EXCEPT !.compliance_findings = Remediated(F, order, stop - 1)],
                exc |-> "KeyError"]
       ELSE [state |-> AddAuditLog(
                          [S EXCEPT !.compliance_findings = Remediated(F, order, Len(order))],
                          "Remediation", "Suggest"),
             exc |-> "none"]

\* a scoring without the cap at 100
RiskScoringUncapped(S) ==
    LET F == S.compliance_findings
        high_risks == Cardinality({k \in DOMAIN F : F[k].risk_level = "high"})
        medium_risks == Cardinality({k \in DOMAIN F : F[k].risk_level = "medium"})
        total_score == (high_risks * 10) + (medium_risks * 5)
    IN AddAuditLog(
           [S EXCEPT !.risk_summary =
               [overall_score |-> total_score,
                risk_level |-> IF total_score > 50 THEN "Critical"
                               ELSE IF total_score > 20 THEN "Moderate" ELSE "Low",
                breakdown |-> [high |-> high_risks, medium |-> medium_risks]]],
           "RiskScoring", "Calculate")
\* RiskScoringAgent.process
RiskScoring(S) ==
    LET F == S.compliance_findings
        high_risks == Cardinality({k \in DOMAIN F : F[k].risk_level = "high"})
        medium_risks == Cardinality({k \in DOMAIN F : F[k].risk_level = "medium"})
        normalized_score == Min(100, (high_risks * 10) + (medium_risks * 5))
    IN AddAuditLog(
           [S EXCEPT !.risk_summary =
               [overall_score |-> normalized_score,
                risk_level |-> IF normalized_score > 50 THEN "Critical"
                               ELSE IF normalized_score > 20 THEN "Moderate" ELSE "Low",
                breakdown |-> [high |-> high_risks, medium |-> medium_risks]]],
           "RiskScoring", "Calculate")

\* --------------------------------------------------- SpecCompliance actions
\* ComplianceOrchestrator.run(raw_text, metadata), to "2. Ingestion"
CompRun(raw_text, jurisdiction) ==
    /\ orch.pc \in {"idle", "done", "raised"}
    /\ state' = AddAuditLog(
                    NewContractState(raw_text, [NoMetadata EXCEPT !.jurisdiction = jurisdiction]),
                    "Orchestrator", "Start")
    /\ orch' = [pc |-> "ingestion", i |-> 1, findings |-> <<>>, exc |-> "none"]
    /\ UNCHANGED <<now, limVars, dispVars, factVars, agentVars>>
CompIngestion ==
    /\ orch.pc = "ingestion"
    /\ state' = Ingestion(state)
    /\ orch' = [orch EXCEPT !.pc = "jurisdiction"]
    /\ UNCHANGED <<now, limVars, dispVars, factVars, agentVars>>
CompJurisdiction(out) ==
    /\ orch.pc = "jurisdiction"
    /\ state' = JurisdictionResolver(state, out)
    /\ orch' = [orch EXCEPT !.pc = "extraction"]
    /\ UNCHANGED <<now, limVars, dispVars, factVars, agentVars>>
CompExtraction(out) ==
    /\ orch.pc = "extraction"
    /\ state' = ClauseExtractor(state, out)
    /\ orch' = [orch EXCEPT !.pc = "retrieval"]
    /\ UNCHANGED <<now, limVars, dispVars, factVars, agentVars>>
\* a run that goes from retrieval straight to remediation
CompRetrievalSkipsReasoning(out) ==
    /\ orch.pc = "retrieval"
    /\ state' = StatuteRetrieval(state, out)
    /\ orch' = [orch EXCEPT !.pc = "remediation"]
    /\ UNCHANGED <<now, limVars, dispVars, factVars, agentVars>>
CompRetrieval(out) ==
    /\ orch.pc = "retrieval"
    /\ state' = StatuteRetrieval(state, out)
    /\ orch' = [orch EXCEPT !.pc = "reasoning"]
    /\ UNCHANGED <<now, limVars, dispVars, factVars, agentVars>>
\* one pass of the loop "for clause in state.clauses", with its LLM call;
\* the last pass goes on to the end of the stage
CompReasoning(out) ==
    /\ orch.pc = "reasoning"
    /\ IF orch.i > Len(state.clauses)
       THEN /\ state' = ReasoningDone(state, orch.findings)
            /\ orch' = [orch EXCEPT !.pc = "remediation"]
       ELSE \E R \in {ReasonClause(orch.findings, state.clauses[orch.i], out)} :
               IF R.exc # "none"
               THEN /\ orch' = [orch EXCEPT !.pc = "raised", !.exc = R.exc]
                    /\ UNCHANGED state
               ELSE IF orch.i = Len(state.clauses)
               THEN /\ state' = ReasoningDone(state, R.findings)
                    /\ orch' = [orch EXCEPT !.pc = "remediation", !.findings = R.findings]
               ELSE /\ orch' = [orch EXCEPT !.i = @ + 1, !.findings = R.findings]
                    /\ UNCHANGED state
    /\ UNCHANGED <<now, limVars, dispVars, factVars, agentVars>>
CompRemediation ==
    /\ orch.pc = "remediation"
    /\ \E R \in {Remediation(state)} :
          /\ state' = R.state
          /\ orch' = IF R.exc # "none" THEN [orch EXCEPT !.pc = "raised", !.exc = R.exc]
                     ELSE [orch EXCEPT !.pc = "risk_scoring"]
    /\ UNCHANGED <<now, limVars, dispVars, factVars, agentVars>>
\* "8. Risk Scoring" and the end of run
CompRiskScoring ==
    /\ orch.pc = "risk_scoring"
    /\ state' = AddAuditLog(RiskScoring(state), "Orchestrator", "End")
    /\ orch' = [orch EXCEPT !.pc = "done"]
    /\ UNCHANGED <<now, limVars, dispVars, factVars, agentVars>>

InitCompliance ==
    /\ now = 0
    /\ LimIdle
    /\ DispIdle
    /\ FactIdle
    /\ PipeIdle
    /\ AgentIdle

NextCompliance ==
    \/ \E raw_text \in {0, MinContractLen - 60}, jurisdiction \in BOOLEAN :
           CompRun(raw_text, jurisdiction)
    \/ CompIngestion
    \/ \E out \in JurisdictionOutcomes : CompJurisdiction(out)
    \/ \E out \in ExtractionOutcomes : CompExtraction(out)
    \/ \E out \in RetrievalOutcomes : CompRetrieval(out)
    \/ \E out \in ReasoningOutcomes : CompReasoning(out)
    \/ CompRemediation
    \/ CompRiskScoring

SpecCompliance == InitCompliance /\ [][NextCompliance]_vars

\* C2: whatever the input and the external calls' outcomes, run is never left
\* by an exception, and the state it returns ends with the orchestrator's
\* "End" entry.
C2_RunReturnsWithEnd ==
    /\ orch.pc # "raised"
    /\ orch.pc = "done" =>
           state.audit_log[Len(state.audit_log)] = [agent |-> "Orchestrator", action |-> "End"]

\* ------------------------------------------- SpecLimiterLive (C11..C13)
MaxCalls == 2
Max(a, b) == IF a > b THEN a ELSE b

\* time.monotonic() has an arbitrary origin: a tick may as well move every
\* time stamp back by one as move the clock forward.  A stamp older than the
\* code can tell apart (the bucket is full again, the rps gap has passed, the
\* sleep is over) stays where it is.
LimRebase(S) ==
    [S EXCEPT !.lim.rpm_updated_at = Max(@ - 1, now - S.lim.rpm * TicksPerToken),
              !.lim.last_request_time = Max(@ - 1, now - S.lim.rps_interval),
              !.wake = [t \in Tasks |-> Max(S.wake[t] - 1, now)]]

LiveAcquire(t) == admitted < MaxCalls /\ Acquire(t)
LiveTryAcquire(t) == admitted < MaxCalls /\ TryAcquire(t)
LiveTick ==
    /\ LimApply(LimRebase(LimState))
    /\ UNCHANGED <<now, dispVars, factVars, pipeVars, agentVars>>
\* what the event loop does for a caller once it is ready
LiveResume(t) ==
    \/ AcquireGotRpsLock(t) \/ AcquireRpsWake(t)
    \/ AcquireGotRpmLock(t) \/ AcquireRpmWake(t)
    \/ TryGotRpsLock(t) \/ TryGotRpmLock(t)

NextLimiterLive ==
    \/ \E t \in Tasks : LiveAcquire(t)
    \/ \E t \in Tasks : LiveTryAcquire(t)
    \/ \E t \in Tasks : AcquireGotRpsLock(t)
    \/ \E t \in Tasks : AcquireRpsWake(t)
    \/ \E t \in Tasks : AcquireGotRpmLock(t)
    \/ \E t \in Tasks : AcquireRpmWake(t)
    \/ \E t \in Tasks : TryGotRpsLock(t)
    \/ \E t \in Tasks : TryGotRpmLock(t)
    \/ LiveTick

\* the event loop resumes every ready coroutine, and time advances
SpecLimiterLive ==
    /\ InitLimiter
    /\ [][NextLimiterLive]_vars
    /\ \A t \in Tasks : WF_vars(LiveResume(t))
    /\ WF_vars(LiveTick)

InAcquire(t) == tpc[t] \in {"a_wait_rps", "a_rps_sleep", "a_wait_rpm", "a_rpm_sleep"}

\* C11: for rpm > 0 every acquire() call returns, also with the bucket used
\* up and with other callers on the same instance, and the step by which it
\* returns is one that takes a token for it.
C11_AcquireReturnsWithToken ==
    /\ \A t \in Tasks : (lim.rpm > 0 /\ InAcquire(t)) ~> (tpc[t] = "idle" /\ tres[t] = "acquired")
    /\ [][\A t \in Tasks :
             (lim.rpm > 0 /\ InAcquire(t) /\ tpc'[t] = "idle")
                 => (tres'[t] = "acquired" /\ admitted' = admitted + 1)]_vars
\* a caller got its token although the bucket was used up, while another
\* caller was queued behind it
C11_Witness ==
    /\ lim.rpm > 0
    /\ admitted > lim.rpm
    /\ \E t \in Tasks : tres[t] = "acquired" /\ tpc[t] = "idle"
    /\ \E t \in Tasks : InAcquire(t)

\* ------------------------------------------- SpecLimiterSeq (one caller)
SeqMaxTime == 14

\* await limiter.acquire(), nobody else using the limiter
SeqCallAcquire ==
    \E a \in {SeqAcquire(lim, now)} :
        /\ a.t <= SeqMaxTime
        /\ lim' = a.lim
        /\ now' = a.t
        /\ tres' = [tres EXCEPT ![1] = IF a.err THEN "ZeroDivisionError" ELSE "acquired"]
        /\ admitted' = IF a.err THEN admitted ELSE admitted + 1
        /\ admit_at' = IF a.err THEN admit_at ELSE a.t
        /\ UNCHANGED <<tpc, twake, refilled, dispVars, factVars, pipeVars, agentVars>>
\* await limiter.try_acquire(), nobody else using the limiter
SeqCallTryAcquire ==
    \E a \in {SeqTryAcquire(lim, now)} :
        /\ lim' = a.lim
        /\ tres' = [tres EXCEPT ![1] = IF a.ok THEN "true" ELSE "false"]
        /\ admitted' = IF a.ok THEN admitted + 1 ELSE admitted
        /\ admit_at' = IF a.ok THEN now ELSE admit_at
        /\ UNCHANGED <<now, tpc, twake, refilled, dispVars, factVars, pipeVars, agentVars>>
SeqTick ==
    /\ now < SeqMaxTime
    /\ now' = now + 1
    /\ UNCHANGED <<limVars, dispVars, factVars, pipeVars, agentVars>>

NextLimiterSeq == SeqCallAcquire \/ SeqCallTryAcquire \/ SeqTick

SpecLimiterSeq == InitLimiter /\ [][NextLimiterSeq]_vars

\* C12: with rps > 0 any two calls admitted by one limiter, through acquire()
\* or try_acquire(), are at least 1/rps seconds (rps_interval) apart.
C12_AdmissionsSpaced ==
    [][(lim.rps_interval > 0 /\ admitted > 0 /\ admitted' = admitted + 1)
          => admit_at' - admit_at >= lim.rps_interval]_vars

\* C13: a RateLimiter constructed with rpm = 0 is rejected, or else it imposes
\* no limit: no acquire() ends otherwise than admitted and no try_acquire()
\* returns False.  (__init__ accepts rpm = 0, so a limiter with rpm = 0 exists.)
C13_ZeroRpmRejectedOrUnlimited ==
    lim.rpm = 0 => \A t \in Tasks : tres[t] \in {"none", "acquired", "true"}

\* C14: across concurrently running requests the rate limiters are the only
\* objects written by more than one request; no module-level state (the client
\* singletons, the genai configuration) is assigned by a request's execution.
C14_RequestsWriteOnlyLimiters ==
    \A o \in DOMAIN gwrites : gwrites[o] \cap Requests = {}

\* ------------------------------------------- SpecPipelines (both pipelines)
InitPipelines ==
    /\ now = 0
    /\ LimIdle
    /\ DispIdle
    /\ FactIdle
    /\ PipeIdle
    /\ AgentIdle

NextPipelines == NextDraft \/ NextCompliance

SpecPipelines == InitPipelines /\ [][NextPipelines]_vars

\* the stages in the order of the awaits of run(), by the orchestrator's
\* position and by the agent name they log under
CompStages ==
    <<"ingestion", "jurisdiction", "extraction", "retrieval", "reasoning", "remediation",
      "risk_scoring">>
CompAgents ==
    <<"IngestionAgent", "JurisdictionResolver", "ClauseExtractor", "StatuteRetrieval",
      "ComplianceReasoning", "Remediation", "RiskScoring">>
DraftStages == <<"intent", "policy", "template", "generation", "review">>
DraftAgents == <<"IntentAnalysis", "PolicyCheck", "TemplateSelection", "Generation", "SelfReview">>

InSeq(q, x) == \E i \in DOMAIN q : q[i] = x
IndexOf(q, x) == CHOOSE i \in DOMAIN q : q[i] = x
\* 0: no stage
StageRank(pc) ==
    IF InSeq(CompStages, pc) THEN IndexOf(CompStages, pc)
    ELSE IF InSeq(DraftStages, pc) THEN IndexOf(DraftStages, pc) ELSE 0
AgentRank(agent) ==
    IF InSeq(CompAgents, agent) THEN IndexOf(CompAgents, agent)
    ELSE IF InSeq(DraftAgents, agent) THEN IndexOf(DraftAgents, agent) ELSE 0
\* where run() is once the stage at pc has returned
NextStage(pc) ==
    LET q == IF InSeq(CompStages, pc) THEN CompStages ELSE DraftStages
    IN IF IndexOf(q, pc) = Len(q) THEN "done" ELSE q[IndexOf(q, pc) + 1]
\* where run() is once the stage at pc, or the assembly after it, has raised
AfterRaise(pc) == IF InSeq(CompStages, pc) THEN "raised" ELSE "fallback"
\* the agents of the pipeline the run's first entry belongs to
RunAgents ==
    IF state.audit_log = <<>> THEN <<>>
    ELSE IF state.audit_log[1].agent = "Orchestrator" THEN CompAgents ELSE DraftAgents

\* a step leaves a stage only for the next stage of its pipeline or because
\* it raised, and does not touch the state while it stays in the stage
StageStepInOrder ==
    StageRank(orch.pc) > 0 =>
        \/ orch'.pc = orch.pc /\ state' = state
        \/ orch'.pc = NextStage(orch.pc)
        \/ orch'.pc = AfterRaise(orch.pc)
\* the stages' entries stand in the pipeline's order, one per stage at most,
\* and only stages that have returned have one
AuditInStageOrder ==
    LET log == state.audit_log
    IN /\ \A i \in DOMAIN log :
             AgentRank(log[i].agent) > 0 =>
                 /\ InSeq(RunAgents, log[i].agent)
                 /\ StageRank(orch.pc) > 0 => AgentRank(log[i].agent) < StageRank(orch.pc)
       /\ \A i, j \in DOMAIN log :
             (i < j /\ AgentRank(log[i].agent) > 0 /\ AgentRank(log[j].agent) > 0)
                 => AgentRank(log[i].agent) < AgentRank(log[j].agent)

\* C15: in each run the stages execute strictly sequentially in the fixed
\* order of the pipeline type, stage K+1 starting only after stage K has
\* returned, no stage runs twice, and the stages' audit_log entries appear in
\* that execution order.
C15_StagesRunInFixedOrder ==
    /\ [][StageStepInOrder]_vars
    /\ [][StageRank(orch'.pc) = 1 => orch.pc \in {"idle", "done", "raised"}]_vars
    /\ []AuditInStageOrder
\* a compliance run in which all seven stages ran and logged, and a drafting
\* run in which all five did, have ended
C15_Witness ==
    /\ orch.pc = "done"
    /\ \/ \A k \in DOMAIN CompAgents :
              \E i \in DOMAIN state.audit_log : state.audit_log[i].agent = CompAgents[k]
       \/ \A k \in DOMAIN DraftAgents :
              \E i \in DOMAIN state.audit_log : state.audit_log[i].agent = DraftAgents[k]

IsPrefix(p, q) == Len(p) <= Len(q) /\ \A i \in DOMAIN p : q[i] = p[i]
InRun == orch.pc \notin {"idle", "done", "raised"}

\* C16: audit_log is append-only throughout a run: every step of a stage or
\* of the orchestrator leaves the entries already present unchanged and in
\* the same positions, so the length of the log never decreases.
C16_AuditLogAppendOnly ==
    [][InRun => IsPrefix(state.audit_log, state'.audit_log)]_vars
\* a compliance run has ended with the entries of Start, seven stages and End
C16_Witness ==
    /\ orch.pc = "done"
    /\ Len(state.audit_log) = Len(CompAgents) + 2
    /\ state.audit_log[1] = [agent |-> "Orchestrator", action |-> "Start"]

HasEntryOf(agent) == \E i \in DOMAIN state.audit_log : state.audit_log[i].agent = agent

\* C17: every stage of a run appends at least one audit_log entry, whatever
\* its input and whichever path it takes: once run() stands at a stage, each
\* stage before it has returned and has an entry in the log.
C17_EveryStageLogs ==
    StageRank(orch.pc) > 0 =>
        \A k \in 1..(StageRank(orch.pc) - 1) : HasEntryOf(RunAgents[k])

\* the outcomes in which a stage's external call failed or its answer could
\* not be parsed
FailedJurisdiction == {"raise", "nomatch", "unparsable"}
FailedExtraction == {out \in ExtractionOutcomes : out.kind # "list"}
FailedRetrieval == {"raise"}
FailedReasoning == {out \in ReasoningOutcomes : out.kind # "finding"}

\* C18: when a stage's external call fails or its output cannot be parsed,
\* the stage catches the failure, writes its documented fallback value into
\* state (Jurisdiction: country 'India'; Clause Extraction: one clause for the
\* whole raw_text; Statute Retrieval: nothing retrieved; Reasoning: a finding
\* with status 'error', risk_level 'high', suggested_fix 'Contact support.')
\* and returns, so that the next stage runs.
C18_FailureWritesFallback ==
    /\ (orch.pc = "jurisdiction" /\ ~state.metadata.jurisdiction) =>
          \A out \in FailedJurisdiction :
              JurisdictionResolver(state, out).jurisdiction.country = "India"
    /\ orch.pc = "extraction" =>
          \A out \in FailedExtraction :
              ClauseExtractor(state, out).clauses = <<[kind |-> "dict", id |-> "1"]>>
    /\ orch.pc = "retrieval" =>
          \A out \in FailedRetrieval : StatuteRetrieval(state, out).retrieved_statutes = 0
    /\ (orch.pc = "reasoning" /\ orch.i <= Len(state.clauses)
          /\ state.clauses[orch.i].kind = "dict") =>          \* the call is made
          \A out \in FailedReasoning :
              \E R \in {ReasonClause(orch.findings, state.clauses[orch.i], out)} :
                  /\ R.exc = "none"
                  /\ R.findings[state.clauses[orch.i].id] = ErrorFinding

\* the stage that took S0 to S1 appended an entry, and the last one it
\* appended has an action that marks an error or a fallback
MarksFailure(S0, S1) ==
    /\ Len(S1.audit_log) > Len(S0.audit_log)
    /\ S1.audit_log[Len(S1.audit_log)].action \in {"Error", "Fallback"}

\* C19: whenever a stage recovers from a failure by writing a fallback value,
\* it appends an audit_log entry whose action marks an error or a fallback,
\* distinct from the action it logs on success.
C19_RecoveryIsLogged ==
    /\ (orch.pc = "jurisdiction" /\ ~state.metadata.jurisdiction) =>
          \A out \in FailedJurisdiction : MarksFailure(state, JurisdictionResolver(state, out))
    /\ orch.pc = "extraction" =>
          \A out \in FailedExtraction : MarksFailure(state, ClauseExtractor(state, out))
    /\ orch.pc = "retrieval" =>
          \A out \in FailedRetrieval : MarksFailure(state, StatuteRetrieval(state, out))
    /\ (orch.pc = "reasoning" /\ orch.i = Len(state.clauses)) =>
          \A out \in FailedReasoning :
              \E R \in {ReasonClause(orch.findings, state.clauses[orch.i], out)} :
                  R.exc = "none" => MarksFailure(state, ReasoningDone(state, R.findings))
    /\ orch.pc = "intent" =>
          \A out \in {"raise", "unparsable", "nondict"} :
              MarksFailure(state, IntentAnalysis(state, out))
    /\ orch.pc = "policy" =>
          \A out \in {o \in PolicyOutcomes : o.kind \in {"raise", "unparsable", "nondict"}} :
              MarksFailure(state, PolicyCheck(state, out))
    /\ orch.pc = "template" =>
          \A out \in {"raise", "unparsable", "nondict"} :
              MarksFailure(state, TemplateSelection(state, out))

\* the first position of the orchestrator's entry with this action (0: none)
DraftEntryAt(action) ==
    IF DraftHasEntry(action)
    THEN CHOOSE i \in DOMAIN state.audit_log :
             /\ state.audit_log[i] = [agent |-> "DraftingOrchestrator", action |-> action]
             /\ \A j \in 1..(i - 1) : state.audit_log[j] # state.audit_log[i]
    ELSE 0
\* the Generation stage raises out of process() (it does so whatever the model answers)
GenerationRaises ==
    \E out \in LlmRaises \cup GeneratedTexts : Generation(state, out).exc # "none"
\* run() takes the except branch exactly when a stage raised or the assembled
\* contract is too short, and logs 'Fallback' as it does
FallbackTakenWhenDue ==
    /\ orch.pc \in {"intent", "policy", "template"} => orch'.pc # "fallback"
    /\ orch.pc = "generation" => (orch'.pc = "fallback" <=> GenerationRaises)
    /\ orch.pc = "review" =>
          /\ state'.final_contract.kind = "assembled"
          /\ orch'.pc = "fallback" <=>
                (state'.final_contract.n = 0 \/ state'.final_contract.n < MinContractLen)
    /\ (orch.pc # "fallback" /\ orch'.pc = "fallback") =>
          /\ IsPrefix(state.audit_log, state'.audit_log)
          /\ Len(state'.audit_log) > Len(state.audit_log)
          /\ state'.audit_log[Len(state'.audit_log)] =
                 [agent |-> "DraftingOrchestrator", action |-> "Fallback"]
\* a finished run made one fallback call or none; with one, final_contract is
\* the call's outcome and 'Fallback' stands before 'End'; with none, the
\* assembled contract stands and no 'Fallback' was logged
FallbackRecorded ==
    orch.pc = "done" =>
        /\ orch.fb_calls \in {0, 1}
        /\ orch.fb_calls = 1 <=> DraftHasEntry("Fallback")
        /\ orch.fb_calls = 1 =>
              /\ state.final_contract.kind \in {"response", "error"}
              /\ DraftEntryAt("Fallback") < DraftEntryAt("End")
        /\ orch.fb_calls = 0 =>
              /\ state.final_contract.kind = "assembled"
              /\ state.final_contract.n >= MinContractLen

\* C20: after the drafting stages have run, the orchestrator takes the
\* single-prompt fallback if and only if a stage raised or the assembled
\* final_contract is empty or shorter than 100 characters; the fallback issues
\* exactly one generation call, replaces final_contract with its outcome, and
\* is recorded by a 'Fallback' entry that precedes the 'End' entry.
C20_FallbackIffInsufficient ==
    /\ [][FallbackTakenWhenDue]_vars
    /\ []FallbackRecorded
\* a run whose five stages returned, whose assembled contract was too short,
\* and which ended after the fallback's call
C20_Witness ==
    /\ orch.pc = "done"
    /\ orch.fb_calls = 1
    /\ HasEntryOf("SelfReview")
    /\ DraftHasEntry("Fallback") /\ DraftHasEntry("End")

\* C21: in every state returned by DraftingOrchestrator.run, final_contract
\* is the text fields of drafted_clauses, in order, joined by blank lines
\* (here: it is the assembled text, and has that text's length).
C21_FinalContractIsJoinedClauses ==
    orch.pc = "done" =>
        /\ state.final_contract.kind = "assembled"
        /\ state.final_contract.n = JoinedLen(state.drafted_clauses)

\* C22: when clause extraction yields zero clauses the orchestrator aborts
\* the staged approach: Reasoning, Remediation and Risk Scoring are not run
\* on an empty clause list, so none of them has logged while clauses is empty.
C22_NoReasoningOnEmptyClauses ==
    (HasEntryOf("ClauseExtractor") /\ state.clauses = <<>>) =>
        /\ ~HasEntryOf("ComplianceReasoning")
        /\ ~HasEntryOf("Remediation")
        /\ ~HasEntryOf("RiskScoring")

\* the ids of the extracted clauses that have one
ClauseIds(clauses) ==
    {clauses[i].id : i \in {j \in DOMAIN clauses :
                              clauses[j].kind = "dict" /\ clauses[j].id \notin {"absent", "list"}}}

\* C23: in every reachable state of a compliance run the key set of
\* compliance_findings is a subset of the ids of state.clauses.
C23_FindingKeysAreClauseIds ==
    DOMAIN state.compliance_findings \subseteq ClauseIds(state.clauses)
\* a run has ended with findings for two clauses
C23_Witness ==
    /\ orch.pc = "done"
    /\ HasEntryOf("ComplianceReasoning")
    /\ Cardinality(DOMAIN state.compliance_findings) = 2

\* the findings with their suggested_fix texts blanked
WithoutFixes(F) == [k \in DOMAIN F |-> [F[k] EXCEPT !.suggested_fix = "any"]]

\* C24: the Remediation stage changes nothing in state except the
\* suggested_fix text of findings and its own audit entry: the finding keys
\* and every finding's status, risk_level and reason are the same after it as
\* before, as are raw_text, clauses, jurisdiction and the retrieved references.
C24_RemediationFrame ==
    [][orch.pc = "remediation" =>
          /\ [state' EXCEPT !.compliance_findings = state.compliance_findings,
                            !.audit_log = state.audit_log] = state
          /\ DOMAIN state'.compliance_findings = DOMAIN state.compliance_findings
          /\ WithoutFixes(state'.compliance_findings) = WithoutFixes(state.compliance_findings)
          /\ state'.audit_log \in
                {state.audit_log,
                 Append(state.audit_log, [agent |-> "Remediation", action |-> "Suggest"])}]_vars
\* Remediation has returned and has rewritten the fix of a finding
C24_Witness ==
    /\ HasEntryOf("Remediation")
    /\ ~HasEntryOf("RiskScoring")
    /\ \E k \in DOMAIN state.compliance_findings :
           /\ state.compliance_findings[k].suggested_fix = "rewrite"
           /\ state.compliance_findings[k].status \in {"violation", "warning", "error"}

\* the Jurisdiction stage of the run has returned
AfterJurisdiction == orch.pc \notin {"idle", "ingestion", "jurisdiction"}

\* C25: after the Jurisdiction stage state.jurisdiction is a mapping with a
\* country field (the resolved one or the fallback 'India'), and it is
\* written once per run: no later stage assigns jurisdiction again.
C25_JurisdictionSetOnce ==
    /\ [](AfterJurisdiction => state.jurisdiction.country # "absent")
    /\ [][(AfterJurisdiction /\ InRun) => state'.jurisdiction = state.jurisdiction]_vars

\* ------------------------------------------------- SpecRisk (risk scoring)
MaxFindings == 12

\* a findings mapping with h high, m medium and l low findings, keyed 1..h+m+l
FindingOfLevel(level) ==
    [status |-> IF level = "low" THEN "compliant" ELSE "violation", risk_level |-> level,
     reason |-> "llm", suggested_fix |-> "llm"]
FindingsOf(h, m, l) ==
    [k \in 1..(h + m + l) |->
        FindingOfLevel(IF k <= h THEN "high" ELSE IF k <= h + m THEN "medium" ELSE "low")]

\* the Risk Scoring stage is about to run on some findings mapping
InitRisk ==
    /\ now = 0
    /\ LimIdle
    /\ DispIdle
    /\ FactIdle
    /\ AgentIdle
    /\ \E h \in 0..MaxFindings, m \in 0..MaxFindings, l \in 0..MaxFindings :
          /\ h + m + l <= MaxFindings
          /\ state = [NewContractState(MinContractLen - 60, NoMetadata)
                         EXCEPT !.compliance_findings = FindingsOf(h, m, l)]
    /\ orch = [pc |-> "risk_scoring", i |-> 1, findings |-> <<>>, exc |-> "none"]
\* risk_scorer.process(state) called once more on the returned state
RiskScoreAgain ==
    /\ orch.pc = "done"
    /\ state' = RiskScoring(state)
    /\ orch' = [orch EXCEPT !.pc = "rescored"]
    /\ UNCHANGED <<now, limVars, dispVars, factVars, agentVars>>

NextRisk == CompRiskScoring \/ RiskScoreAgain

SpecRisk == InitRisk /\ [][NextRisk]_vars

RECURSIVE CountLevel(_, _)
CountLevel(F, level) ==
    IF F = <<>> THEN 0
    ELSE (IF Head(F).risk_level = level THEN 1 ELSE 0) + CountLevel(Tail(F), level)
\* the summary the claim describes, for the findings F
ExpectedSummary(F) ==
    LET raw == 10 * CountLevel(F, "high") + 5 * CountLevel(F, "medium")
        score == IF raw > 100 THEN 100 ELSE raw
    IN [overall_score |-> score,
        risk_level |-> IF score > 50 THEN "Critical" ELSE IF score > 20 THEN "Moderate" ELSE "Low"]
Scored == orch.pc \in {"done", "rescored"}

\* C26: risk scoring is a deterministic function of compliance_findings
\* alone: overall_score = min(100, 10 x high + 5 x medium), within 0..100;
\* risk_level is Critical above 50, Moderate above 20, else Low; the empty
\* mapping gives 0 and Low; one high, one medium and one low give 15 and Low.
C26_RiskScoreFormula ==
    /\ [](Scored =>
            /\ state.risk_summary.overall_score
                   = ExpectedSummary(state.compliance_findings).overall_score
            /\ state.risk_summary.risk_level
                   = ExpectedSummary(state.compliance_findings).risk_level
            /\ state.risk_summary.overall_score \in 0..100
            /\ state.compliance_findings = <<>> =>
                   /\ state.risk_summary.overall_score = 0
                   /\ state.risk_summary.risk_level = "Low"
            /\ state.compliance_findings = FindingsOf(1, 1, 1) =>
                   /\ state.risk_summary.overall_score = 15
                   /\ state.risk_summary.risk_level = "Low")
    /\ [][orch.pc = "done" => state'.risk_summary = state.risk_summary]_vars
\* eleven high findings have been scored, twice: the cap at 100 applies
C26_Witness ==
    /\ orch.pc = "rescored"
    /\ CountLevel(state.compliance_findings, "high") > 10
    /\ state.risk_summary.overall_score = 100
    /\ state.risk_summary.risk_level = "Critical"

\* ============================================================ RiskAgent
\* app/agents/risk_agent.py: the tier of one parsed finding
MaxWords == 2
MaxFixWords == 1
MaxMissing == 3

RISK_LEVELS == {"low", "medium", "high"}
\* a text is the sequence of its words; the words the texts are drawn from
RiskWords == {"Violation", "should", "must", "be", "mayor"}
\* the values of an explicit risk_level; "absent": the key is not in parsed
RiskLevelValues == {"absent", "low", "Medium", "HIGH", " High ", "critical"}
\* str.strip()
Strip(w) == IF w = " high " THEN "high" ELSE w
\* the lower-case words found inside the lower-case word w by Python's `in`
Fragments(w) == IF w = "mayor" THEN {"mayor", "may"} ELSE {w}
\* `indicator in combined_text`, the indicator being one word or several
HasIndicator(text, indicator) ==
    IF Len(indicator) = 1
    THEN \E i \in DOMAIN text : indicator[1] \in Fragments(text[i])
    ELSE Contains(text, indicator)
high_indicators ==
    {<<"high">>, <<"high", "risk">>, <<"critical">>, <<"severe">>, <<"violation">>,
     <<"illegal">>, <<"non-compliant">>, <<"non", "compliant">>, <<"breach">>,
     <<"mandatory">>, <<"required">>, <<"must", "be">>, <<"fails", "to">>}
medium_indicators ==
    {<<"medium">>, <<"medium", "risk">>, <<"concern">>, <<"concerns">>, <<"missing">>,
     <<"should">>, <<"may">>, <<"consider">>, <<"recommend">>, <<"suggested">>,
     <<"advisable">>, <<"improve">>, <<"enhance">>, <<"unclear">>}
low_indicators ==
    {<<"compliant">>, <<"acceptable">>, <<"adequate">>, <<"satisfactory">>,
     <<"meets", "requirements">>, <<"no", "issues">>, <<"low", "risk">>, <<"minimal">>}
\* " ".join(text_fields).lower(); a field that is not in parsed adds nothing
CombinedText(p) ==
    Lower((IF p.issue_summary.kind = "absent" THEN <<>> ELSE p.issue_summary.words)
          \o (IF p.suggested_fix.kind = "absent" THEN <<>> ELSE p.suggested_fix.words))
\* len(parsed["missing_requirements"]) if it is there and is a list, else 0
MissingCount(p) ==
    IF p.missing_requirements.kind = "list" THEN p.missing_requirements.n ELSE 0
\* a variant of _heuristic_risk_level that looks at the medium rules first
HeuristicMediumFirst(p) ==
    LET combined_text == CombinedText(p)
        missing_count == MissingCount(p)
    IN IF \E ind \in medium_indicators : HasIndicator(combined_text, ind) THEN "medium"
       ELSE IF missing_count > 0 /\ missing_count < 3 THEN "medium"
       ELSE IF \E ind \in high_indicators : HasIndicator(combined_text, ind) THEN "high"
       ELSE IF missing_count >= 3 THEN "high"
       ELSE "low"
\* RiskAgent._heuristic_risk_level(parsed)
HeuristicRiskLevel(p) ==
    LET combined_text == CombinedText(p)
        missing_count == MissingCount(p)
    IN IF \E ind \in high_indicators : HasIndicator(combined_text, ind) THEN "high"
       ELSE IF missing_count >= 3 THEN "high"
       ELSE IF \E ind \in medium_indicators : HasIndicator(combined_text, ind) THEN "medium"
       ELSE IF missing_count > 0 THEN "medium"
       ELSE IF \E ind \in low_indicators : HasIndicator(combined_text, ind) THEN "low"
       ELSE "low"
\* a variant of _determine_risk_level that never looks at the explicit field
DetermineRiskLevelByText(p) == HeuristicRiskLevel(p)
\* RiskAgent._determine_risk_level(parsed)
DetermineRiskLevel(p) ==
    IF p.risk_level # "absent" /\ Strip(LowerWord(p.risk_level)) \in RISK_LEVELS
    THEN Strip(LowerWord(p.risk_level))
    ELSE HeuristicRiskLevel(p)

\* a text field of parsed: not there, or a string of up to k words
TextFields(k) ==
    {[kind |-> "absent", words |-> <<>>]}
    \cup {[kind |-> "str", words |-> w] : w \in SeqsUpTo(RiskWords, k)}
\* the parsed findings _determine_risk_level is called on
ParsedFindings ==
    [risk_level : RiskLevelValues,
     issue_summary : TextFields(MaxWords),
     suggested_fix : TextFields(MaxFixWords),
     missing_requirements :
         {[kind |-> k, n |-> 0] : k \in {"absent", "nonlist"}}
         \cup {[kind |-> "list", n |-> n] : n \in 0..MaxMissing}]
InitRiskAgent ==
    /\ now = 0
    /\ LimIdle
    /\ DispIdle
    /\ FactIdle
    /\ PipeIdle
    /\ finding \in ParsedFindings
    /\ rlevel = <<>>
    /\ ctext = <<>>
    /\ csplit = <<>>
    /\ contract_text = <<>>
    /\ cleaned_text = <<>>
    /\ analysis = <<>>
\* risk_level = self._determine_risk_level(parsed)
RiskClassify ==
    /\ rlevel = <<>>
    /\ rlevel' = <<[arg |-> finding, ret |-> DetermineRiskLevel(finding)]>>
    /\ UNCHANGED <<now, limVars, dispVars, factVars, pipeVars, finding, ctext, csplit, contract_text,
                   cleaned_text, analysis>>
\* the caller stores the tier in parsed["risk_level"] and classifies again
RiskReclassify ==
    /\ Len(rlevel) = 1
    /\ finding' = [finding EXCEPT !.risk_level = rlevel[1].ret]
    /\ rlevel' = Append(rlevel, [arg |-> finding', ret |-> DetermineRiskLevel(finding')])
    /\ UNCHANGED <<now, limVars, dispVars, factVars, pipeVars, ctext, csplit, contract_text,
                   cleaned_text, analysis>>

NextRiskAgent == RiskClassify \/ RiskReclassify

SpecRiskAgent == InitRiskAgent /\ [][NextRiskAgent]_vars

\* the explicit field of p, lower-cased, is one of the three tiers
ExplicitValid(p) == p.risk_level # "absent" /\ LowerWord(p.risk_level) \in RISK_LEVELS
HasHighKeyword(p) == \E ind \in high_indicators : HasIndicator(CombinedText(p), ind)
HasMediumKeyword(p) == \E ind \in medium_indicators : HasIndicator(CombinedText(p), ind)
\* the calls made on a finding whose explicit field is missing or not a tier
HeuristicCalls ==
    {i \in DOMAIN rlevel :
        rlevel[i].arg.risk_level = "absent"
        \/ Strip(LowerWord(rlevel[i].arg.risk_level)) \notin RISK_LEVELS}

C28_ExplicitTierWins ==
    /\ \A i \in DOMAIN rlevel :
          ExplicitValid(rlevel[i].arg) => rlevel[i].ret = LowerWord(rlevel[i].arg.risk_level)
    /\ Len(rlevel) = 2 => rlevel[2].ret = rlevel[1].ret
\* C28: a finding marked Medium whose text holds a high keyword was
\* classified twice, as medium
C28_Witness ==
    /\ Len(rlevel) = 2
    /\ rlevel[1].arg.risk_level = "Medium"
    /\ HasHighKeyword(rlevel[1].arg)
    /\ MissingCount(rlevel[1].arg) = MaxMissing
    /\ rlevel[2].ret = "medium"

\* =========================================================== ClauseAgent
\* app/agents/clause_agent.py: _split_clauses on a preprocessed text.  The
\* text is the sequence of its lines, a line is known by its shape:
\*   num_head    "2. Payment terms"      a numbered section, text on its line
\*   num_bare    "2."                    a numbered section, the number alone
\*   digit_body  "30 days after ..."     a line of a section's body that
\*                                       starts with a number
\*   let_head    "B. Definitions"        a lettered section
\*   kw_head     "Section 2: Scope"      a keyword-headed section
\*   body        "the parties agree"     any other line under 60 characters
\*   long        any other line of 60 characters or more
\*   caps        "GENERAL TERMS AND CONDITIONS"  a heading in capitals
\*   rule        "--------- ... ---------"        a line of 40 dashes
\*   blank       an empty line
MaxLines == 5
MaxFurnishedLines == 3
ShortLineLimit == 60
MIN_CLAUSE_LENGTH == 20
MAX_CLAUSES == 200
HeaderLimit == 30

SectionShapes ==
    {"num_head", "num_bare", "digit_body", "let_head", "kw_head", "body", "long", "blank"}
LineShapes == SectionShapes \cup {"caps", "rule"}
\* len(line), for the lines pictured above
LineLen(shape) ==
    CASE shape = "long" -> ShortLineLimit + 10
      [] shape = "rule" -> 40
      [] shape = "caps" -> 28
      [] shape = "body" -> 17
      [] shape = "num_bare" -> 2
      [] shape = "blank" -> 0
      [] OTHER -> 25
\* line.upper() == line
IsUpperLine(shape) == shape \in {"caps", "rule", "num_bare", "blank"}
\* _preprocess_text ends with text.strip(): no empty line first or last
\* (texts with headings in capitals or rules: up to MaxFurnishedLines lines)
PreprocessedTexts ==
    {t \in SeqsUpTo(SectionShapes, MaxLines) \cup SeqsUpTo(LineShapes, MaxFurnishedLines) :
        t # <<>> => (t[1] # "blank" /\ t[Len(t)] # "blank")}

\* a clause: lines i..j of the text, joined by sep
Span(i, j, sep) == [lines |-> [k \in 1..(j - i + 1) |-> i + k - 1], sep |-> sep]
\* the first line at or after i that is not empty (Len(L) + 1: none)
RECURSIVE NextNonBlank(_, _)
NextNonBlank(L, i) ==
    IF i > Len(L) \/ L[i] # "blank" THEN i ELSE NextNonBlank(L, i + 1)
\* re.finditer(numbered_pattern, text, re.MULTILINE | re.DOTALL) from line i
\* on: a match starts at a line that opens with a number and runs to the
\* first line end ($ under MULTILINE) after one character past the \s+
RECURSIVE NumberedFrom(_, _)
NumberedFrom(L, i) ==
    IF i > Len(L) THEN <<>>
    ELSE IF L[i] \in {"num_head", "digit_body"}
    THEN <<Span(i, i, "\n")>> \o NumberedFrom(L, i + 1)
    ELSE IF L[i] = "num_bare"
    THEN LET j == NextNonBlank(L, i + 1)
         IN IF j <= Len(L)
            THEN <<Span(i, j, "\n")>> \o NumberedFrom(L, j + 1)
            ELSE NumberedFrom(L, i + 1)
    ELSE NumberedFrom(L, i + 1)
numbered_clauses(L) == NumberedFrom(L, 1)
\* the matches of a pattern that takes whole lines of one shape
RECURSIVE LinesOfShape(_, _, _)
LinesOfShape(L, shape, i) ==
    IF i > Len(L) THEN <<>>
    ELSE (IF L[i] = shape THEN <<Span(i, i, "\n")>> ELSE <<>>) \o LinesOfShape(L, shape, i + 1)
lettered_clauses(L) == LinesOfShape(L, "let_head", 1)
section_clauses(L) == LinesOfShape(L, "kw_head", 1)
\* [p.strip() for p in text.split('\n\n') if p.strip()], from line i on
RECURSIVE ParagraphsFrom(_, _)
ParagraphsFrom(L, i) ==
    IF i > Len(L) THEN <<>>
    ELSE IF L[i] = "blank" THEN ParagraphsFrom(L, i + 1)
    ELSE LET RECURSIVE RunEnd(_)
             RunEnd(j) == IF j < Len(L) /\ L[j + 1] # "blank" THEN RunEnd(j + 1) ELSE j
             e == RunEnd(i)
         IN <<Span(i, e, "\n")>> \o ParagraphsFrom(L, e + 1)
paragraph_clauses(L) == ParagraphsFrom(L, 1)
\* [line.strip() for line in text.split('\n') if line.strip()], as line numbers
line_clauses(L) == SelectSeq([i \in 1..Len(L) |-> i], LAMBDA i : L[i] # "blank")
\* the merge loop over line_clauses[k..]: [merged_clauses, current_clause]
RECURSIVE MergeLines(_, _, _, _, _)
MergeLines(L, lines, k, merged_clauses, current_clause) ==
    IF k > Len(lines)
    THEN IF current_clause # <<>>
         THEN Append(merged_clauses, [lines |-> current_clause, sep |-> " "])
         ELSE merged_clauses
    ELSE IF LineLen(L[lines[k]]) < ShortLineLimit /\ current_clause # <<>>
    THEN MergeLines(L, lines, k + 1, merged_clauses, Append(current_clause, lines[k]))
    ELSE MergeLines(L, lines, k + 1,
                    IF current_clause # <<>>
                    THEN Append(merged_clauses, [lines |-> current_clause, sep |-> " "])
                    ELSE merged_clauses,
                    <<lines[k]>>)
merged_clauses_of(L) == MergeLines(L, line_clauses(L), 1, <<>>, <<>>)
\* a variant of _split_clauses that takes three numbered matches as enough
SplitClausesThreeNumbered(text) ==
    IF Len(numbered_clauses(text)) > 2
    THEN [used |-> 1, clauses |-> numbered_clauses(text)]
    ELSE IF Len(lettered_clauses(text)) > 3
    THEN [used |-> 2, clauses |-> lettered_clauses(text)]
    ELSE IF Len(section_clauses(text)) > 2
    THEN [used |-> 3, clauses |-> section_clauses(text)]
    ELSE IF Len(paragraph_clauses(text)) > 2
    THEN [used |-> 4, clauses |-> paragraph_clauses(text)]
    ELSE IF Len(line_clauses(text)) > 1
    THEN [used |-> 5, clauses |-> merged_clauses_of(text)]
    ELSE [used |-> 0,
          clauses |-> IF text # <<>> THEN <<Span(1, Len(text), "\n")>> ELSE <<>>]
\* ClauseAgent._split_clauses(text): the list returned, and the strategy
\* whose return statement returned it (0: the fallback)
SplitClauses(text) ==
    IF Len(numbered_clauses(text)) > 3
    THEN [used |-> 1, clauses |-> numbered_clauses(text)]
    ELSE IF Len(lettered_clauses(text)) > 3
    THEN [used |-> 2, clauses |-> lettered_clauses(text)]
    ELSE IF Len(section_clauses(text)) > 2
    THEN [used |-> 3, clauses |-> section_clauses(text)]
    ELSE IF Len(paragraph_clauses(text)) > 2
    THEN [used |-> 4, clauses |-> paragraph_clauses(text)]
    ELSE IF Len(line_clauses(text)) > 1
    THEN [used |-> 5, clauses |-> merged_clauses_of(text)]
    ELSE [used |-> 0,
          clauses |-> IF text # <<>> THEN <<Span(1, Len(text), "\n")>> ELSE <<>>]

\* len(clause): the lines and one separator between two of them
RECURSIVE SumLineLen(_, _, _)
SumLineLen(L, lines, k) ==
    IF k > Len(lines) THEN 0 ELSE LineLen(L[lines[k]]) + SumLineLen(L, lines, k + 1)
ClauseLen(L, clause) ==
    IF clause.lines = <<>> THEN 0 ELSE SumLineLen(L, clause.lines, 1) + Len(clause.lines) - 1
\* ClauseAgent._is_header_only(clause); no line of the model is of the form
\* "SECTION 1" that header_pattern looks for
IsHeaderOnly(L, clause) ==
    ClauseLen(L, clause) < HeaderLimit /\ \A k \in DOMAIN clause.lines : IsUpperLine(L[clause.lines[k]])
\* ClauseAgent._is_boilerplate_noise(clause): the patterns take a whole
\* clause of one line ("page 3" is not a line of the model)
IsBoilerplateNoise(L, clause) ==
    Len(clause.lines) = 1 /\ L[clause.lines[1]] = "rule"
\* a variant of _filter_clauses without the length test
FilterClausesAnyLength(L, clauses, k, filtered) ==
    LET keep(c) == ClauseLen(L, c) # 0 /\ ~IsHeaderOnly(L, c) /\ ~IsBoilerplateNoise(L, c)
    IN SelectSeq(clauses, keep)
\* ClauseAgent._filter_clauses(clauses), the loop from clauses[k] on
RECURSIVE FilterClauses(_, _, _, _)
FilterClauses(L, clauses, k, filtered) ==
    IF k > Len(clauses) THEN filtered
    ELSE IF ClauseLen(L, clauses[k]) = 0 THEN FilterClauses(L, clauses, k + 1, filtered)
    ELSE IF ClauseLen(L, clauses[k]) < MIN_CLAUSE_LENGTH
    THEN FilterClauses(L, clauses, k + 1, filtered)
    ELSE IF IsHeaderOnly(L, clauses[k]) THEN FilterClauses(L, clauses, k + 1, filtered)
    ELSE IF IsBoilerplateNoise(L, clauses[k]) THEN FilterClauses(L, clauses, k + 1, filtered)
    ELSE IF Len(filtered) + 1 >= MAX_CLAUSES THEN Append(filtered, clauses[k])
    ELSE FilterClauses(L, clauses, k + 1, Append(filtered, clauses[k]))
\* ClauseAgent.run(contract_text), from the preprocessed text on: what
\* _split_clauses returned (used, clauses) and what run returns (returned)
ClauseAgentRun(text) ==
    LET split == SplitClauses(text)
    IN [used |-> split.used, clauses |-> split.clauses,
        returned |-> FilterClauses(text, split.clauses, 1, <<>>)]

InitClauseAgent ==
    /\ now = 0
    /\ LimIdle
    /\ DispIdle
    /\ FactIdle
    /\ PipeIdle
    /\ finding = <<>>
    /\ rlevel = <<>>
    /\ ctext \in PreprocessedTexts
    /\ csplit = <<>>
    /\ contract_text = <<>>
    /\ cleaned_text = <<>>
    /\ analysis = <<>>
\* await clause_agent.run(contract_text), cleaned_text being ctext
ClauseRun ==
    /\ csplit = <<>>
    /\ csplit' = <<ClauseAgentRun(ctext)>>
    /\ UNCHANGED <<now, limVars, dispVars, factVars, pipeVars, finding, rlevel, ctext, contract_text,
                   cleaned_text, analysis>>

NextClauseAgent == ClauseRun

SpecClauseAgent == InitClauseAgent /\ [][NextClauseAgent]_vars

\* what the five strategies count, their thresholds and what each returns
StrategyCount(k) ==
    CASE k = 1 -> Len(numbered_clauses(ctext))
      [] k = 2 -> Len(lettered_clauses(ctext))
      [] k = 3 -> Len(section_clauses(ctext))
      [] k = 4 -> Len(paragraph_clauses(ctext))
      [] k = 5 -> Len(line_clauses(ctext))
StrategyThreshold(k) == CASE k \in {1, 2} -> 3 [] k \in {3, 4} -> 2 [] k = 5 -> 1
StrategyResult(k) ==
    CASE k = 1 -> numbered_clauses(ctext)
      [] k = 2 -> lettered_clauses(ctext)
      [] k = 3 -> section_clauses(ctext)
      [] k = 4 -> paragraph_clauses(ctext)
      [] k = 5 -> merged_clauses_of(ctext)
Clears(k) == StrategyCount(k) > StrategyThreshold(k)
\* the call used the first strategy that clears its threshold, if any
CascadeFollowed(r) ==
    /\ \A k \in 1..5 :
          r.used = k <=> (Clears(k) /\ \A j \in 1..(k - 1) : ~Clears(j))
    /\ \A k \in 1..5 : r.used = k => r.clauses = StrategyResult(k)
    /\ r.used = 0 <=> \A k \in 1..5 : ~Clears(k)
WholeText == Span(1, Len(ctext), "\n")

NumberedSections == {i \in DOMAIN ctext : ctext[i] \in {"num_head", "num_bare"}}
\* C30: for every input with at least 4 numbered top-level sections,
\* strategy 1 is the one selected and its result holds exactly one clause
\* per numbered section, each starting at its section's first line.
C30_OneClausePerNumberedSection ==
    \A c \in DOMAIN csplit :
        Cardinality(NumberedSections) >= 4 =>
            /\ csplit[c].used = 1
            /\ Len(csplit[c].clauses) = Cardinality(NumberedSections)
            /\ {cl.lines[1] : cl \in {csplit[c].clauses[k] : k \in DOMAIN csplit[c].clauses}}
                  = NumberedSections

\* C31: no clause returned by ClauseAgent.run is shorter than 20
\* characters, header-only or boilerplate noise, whichever strategy gave
\* the candidates.
C31_NoShortHeaderOrNoiseClause ==
    \A c \in DOMAIN csplit :
        \A k \in DOMAIN csplit[c].returned :
            /\ ClauseLen(ctext, csplit[c].returned[k]) >= 20
            /\ ~IsHeaderOnly(ctext, csplit[c].returned[k])
            /\ ~IsBoilerplateNoise(ctext, csplit[c].returned[k])
\* C31: the line strategy gave a line of dashes as a candidate of 20
\* characters or more; run did not return it but did return a clause
C31_Witness ==
    /\ csplit # <<>>
    /\ csplit[1].used = 5
    /\ \E k \in DOMAIN csplit[1].clauses :
          /\ IsBoilerplateNoise(ctext, csplit[1].clauses[k])
          /\ ClauseLen(ctext, csplit[1].clauses[k]) >= 20
    /\ csplit[1].returned # <<>>
    /\ Len(csplit[1].returned) < Len(csplit[1].clauses)

\* ------------------------------------------------ the dispatcher's order
\* the client get_llm_client(provider) would hand out now, as generate sees it
ClientFor(provider) ==
    LET F == GetLlmClient(FactState, provider)
        c == F.clients[F.ret]
    IN [primary_provider |-> c.primary_provider, openai_client |-> c.openai_client,
        gemini_client |-> c.gemini_client # 0]
\* the order the claim gives for a provider, cut down to the adapters c has
ClaimedOrder(provider, c) ==
    LET has(a) == IF a = "OpenAI" THEN c.openai_client ELSE c.gemini_client
    IN SelectSeq(IF provider = "google" THEN <<"Gemini", "OpenAI">> ELSE <<"OpenAI", "Gemini">>,
                 has)
\* the adapters one generate() call on c went to, one after the other
AttemptOrder(c, plan) ==
    LET R == HybridGenerate(c, NewLimiter(GeminiRpm, 0, now), now, plan)
    IN [i \in DOMAIN R.attempts |-> R.attempts[i].client]
\* C32: the dispatcher attempts its adapters in a fixed order, the primary
\* first: get_llm_client() without a provider gives a client whose primary
\* is OpenAI, 'openai' gives OpenAI then Gemini, 'google' gives Gemini then
\* OpenAI, and a call goes through that order without changing it.
C32_PrimaryFirstFixedOrder ==
    \A provider \in {"none", "openai", "google"} :
        LET c == ClientFor(provider)
        IN /\ c.primary_provider = (IF provider = "google" THEN "google" ELSE "openai")
           /\ GetExecutionOrder(c) = ClaimedOrder(provider, c)
           /\ \A plan \in [Adapters -> {<<"ok">>, Msg429}] :
                 IsPrefix(AttemptOrder(c, plan), ClaimedOrder(provider, c))
\* C32: the shared default client exists, a client with Gemini as primary
\* and both adapters was handed out, and a generate() call went to Gemini
C32_Witness ==
    /\ g_hybrid_client # 0
    /\ \E c \in DOMAIN fclients :
          /\ fclients[c].primary_provider = "google"
          /\ fclients[c].openai_client
          /\ fclients[c].gemini_client # 0
    /\ fadmitted > 0

\* ------------------------------------ HybridLLMClient.generate_with_pdfs
\* pdf_paths as the call gives it: None, an empty list, a list of one path
PdfPaths == {"None", "empty", "one"}
\* `if pdf_paths:`
HasPdfs(pdf_paths) == pdf_paths = "one"
\* a variant of the order in which attachments do not matter
PdfExecutionOrderConfigured(c, pdf_paths) == GetExecutionOrder(c)
\* clients, less the entries the loop skips with `if not client: continue`
PdfExecutionOrder(c, pdf_paths) ==
    IF HasPdfs(pdf_paths)
    THEN (IF c.gemini_client THEN <<"Gemini">> ELSE <<>>)
         \o (IF c.openai_client THEN <<"OpenAI">> ELSE <<>>)
    ELSE GetExecutionOrder(c)
\* except Exception as e: errors.append(f"{client_name}: {e}")
PdfCallFailed(R, name, m, event) ==
    [Attempted(R, name, event) EXCEPT !.errors = Append(@, [client |-> name, reason |-> m])]
\* client.generate_with_pdfs(...) of one adapter, after admission: Gemini's
\* enters "async with self.rate_limiter", OpenAI's calls its generate
AdapterGenerateWithPdfs(R, name, outcome) ==
    LET R1 == [R EXCEPT !.calls[name] = @ + 1]
    IN IF name = "Gemini"
       THEN LET a == SeqAcquire(R1.lim, R1.t)
                R2 == [R1 EXCEPT !.lim = a.lim, !.t = a.t,
                                 !.tokens = IF a.err THEN @ ELSE @ + 1]
            IN IF a.err THEN PdfCallFailed(R2, name, MsgZeroDiv, "generate_raised")
               ELSE IF outcome = <<"ok">>
                    THEN [Attempted(R2, name, "returned") EXCEPT !.result = <<"text", name>>]
                    ELSE PdfCallFailed(R2, name, outcome, "generate_raised")
       ELSE IF outcome = <<"ok">>
            THEN [Attempted(R1, name, "returned") EXCEPT !.result = <<"text", name>>]
            ELSE PdfCallFailed(R1, name, outcome, "generate_raised")
\* the loop body of generate_with_pdfs for one adapter
PdfAttempt(R, name, outcome) ==
    IF ~HasRateLimiter(name)
    THEN PdfCallFailed(R, name, MsgNoLimiter, "admission_raised")
    ELSE LET ta == SeqTryAcquire(R.lim, R.t)
         IN IF ~ta.ok
            THEN Attempted([R EXCEPT !.lim = ta.lim], name, "denied")
            ELSE AdapterGenerateWithPdfs([R EXCEPT !.lim = ta.lim, !.tokens = @ + 1],
                                         name, outcome)
RECURSIVE PdfLoop(_, _, _, _)
PdfLoop(R, order, i, plan) ==
    IF i > Len(order) THEN [R EXCEPT !.result = <<"raised">>]
    ELSE LET R1 == PdfAttempt(R, order[i], plan[order[i]])
         IN IF R1.result # <<"none">> THEN R1
            ELSE PdfLoop(R1, order, i + 1, plan)
\* HybridLLMClient.generate_with_pdfs
HybridGenerateWithPdfs(c, l, t, pdf_paths, plan) ==
    PdfLoop(NewCall(l, t), PdfExecutionOrder(c, pdf_paths), 1, plan)

\* await client.generate_with_pdfs(system_prompt, user_prompt, pdf_paths)
DispGenerateWithPdfs(pdf_paths, plan) ==
    \E R \in {HybridGenerateWithPdfs(hc, glim, now, pdf_paths, plan)} :
       /\ R.t <= MaxTime
       /\ now' = R.t
       /\ glim' = R.lim
       /\ dlast' = [plan |-> plan, order |-> PdfExecutionOrder(hc, pdf_paths), start |-> now,
                    result |-> R.result, errors |-> R.errors, attempts |-> R.attempts,
                    calls |-> R.calls, tokens |-> R.tokens, pdf_paths |-> pdf_paths]
       /\ UNCHANGED <<hc, limVars, factVars, pipeVars, agentVars>>

NextDispatchPdf ==
    \/ \E pdf_paths \in PdfPaths, plan \in [Adapters -> {<<"ok">>, Msg429}] :
          DispGenerateWithPdfs(pdf_paths, plan)
    \/ DispTick

SpecDispatchPdf == InitDispatch /\ [][NextDispatchPdf]_vars

\* the adapters the last call went to, one after the other
LastAttemptOrder == [i \in DOMAIN dlast.attempts |-> dlast.attempts[i].client]
\* C33: generate_with_pdfs with a non-empty attachment list tries Gemini
\* before OpenAI whatever the configured primary is; without attachments it
\* goes by the configured primary order.
C33_AttachmentsPreferGemini ==
    dlast # NoCall =>
        IF dlast.pdf_paths = "one"
        THEN /\ IsPrefix(LastAttemptOrder,
                         SelectSeq(<<"Gemini", "OpenAI">>,
                                   LAMBDA a : IF a = "Gemini" THEN hc.gemini_client
                                                              ELSE hc.openai_client))
             /\ (hc.gemini_client /\ LastAttemptOrder # <<>>) => LastAttemptOrder[1] = "Gemini"
        ELSE /\ IsPrefix(LastAttemptOrder, GetExecutionOrder(hc))
             /\ (hc.primary_provider = "openai" /\ hc.openai_client /\ LastAttemptOrder # <<>>)
                   => LastAttemptOrder[1] = "OpenAI"
\* C33: a client whose primary is OpenAI was given an attachment and went
\* to Gemini first, then to OpenAI
C33_Witness ==
    /\ dlast # NoCall
    /\ dlast.pdf_paths = "one"
    /\ hc.primary_provider = "openai"
    /\ LastAttemptOrder = <<"Gemini", "OpenAI">>

\* ------------------------------------------- classification of failures
\* the signatures the claim lists, looked for in the lower-cased text
HasClaimedSignature(m) ==
    \/ Contains(Lower(m), <<"429">>)
    \/ Contains(Lower(m), <<"rate", "limit">>)
    \/ Contains(Lower(m), <<"quota">>)
    \/ Contains(Lower(m), <<"resource", "exhausted">>)
\* the text of the exception the i-th attempt of the last call ended with
RaisedText(i) ==
    IF dlast.attempts[i].event = "admission_raised" THEN MsgNoLimiter
    ELSE dlast.plan[dlast.attempts[i].client]
\* the entry of the errors list written for adapter a
ErrorEntryOf(a) == CHOOSE e \in {dlast.errors[k] : k \in DOMAIN dlast.errors} : e.client = a
\* C34: an adapter exception is classified as a rate-limit signal exactly
\* when its text contains, in any case, '429', 'rate limit', 'quota' or
\* 'resource exhausted'; it is then recorded as a rate limit, any other
\* exception as a hard failure carrying the original message, and in both
\* cases the dispatcher moves on to the next adapter.
C34_ClassifiedBySignature ==
    \A i \in DOMAIN dlast.attempts :
        dlast.attempts[i].event \in {"admission_raised", "generate_raised"} =>
            /\ \E k \in DOMAIN dlast.errors : dlast.errors[k].client = dlast.attempts[i].client
            /\ ErrorEntryOf(dlast.attempts[i].client).reason
                  = IF HasClaimedSignature(RaisedText(i)) THEN <<"Rate", "Limit">>
                    ELSE RaisedText(i)
            /\ i < Len(dlast.order) => Len(dlast.attempts) > i

\* ======================================== ClauseAgent._preprocess_text
\* A text is the sequence of its characters; "a" stands for any character
\* that is not white space.
MaxChars == 6
Chars == {"a", " ", "\n", "\r"}
\* text.replace('\r\n', '\n').replace('\r', '\n')
RECURSIVE NormalizeLineBreaks(_)
NormalizeLineBreaks(t) ==
    IF t = <<>> THEN <<>>
    ELSE IF Head(t) = "\r"
    THEN IF Len(t) >= 2 /\ t[2] = "\n"
         THEN <<"\n">> \o NormalizeLineBreaks(Tail(Tail(t)))
         ELSE <<"\n">> \o NormalizeLineBreaks(Tail(t))
    ELSE <<Head(t)>> \o NormalizeLineBreaks(Tail(t))
\* re.sub(r'\n{3,}', '\n\n', text), run being the newlines seen just before t
RECURSIVE CollapseNewlines(_, _)
CollapseNewlines(t, run) ==
    IF t = <<>> THEN <<>>
    ELSE IF Head(t) = "\n"
    THEN (IF run >= 2 THEN <<>> ELSE <<"\n">>) \o CollapseNewlines(Tail(t), run + 1)
    ELSE <<Head(t)>> \o CollapseNewlines(Tail(t), 0)
\* text.split('\n')
RECURSIVE SplitLines(_)
SplitLines(t) ==
    IF t = <<>> THEN << <<>> >>
    ELSE LET rest == SplitLines(Tail(t))
         IN IF Head(t) = "\n" THEN << <<>> >> \o rest
            ELSE << <<Head(t)>> \o rest[1] >> \o Tail(rest)
\* '\n'.join(lines)
RECURSIVE JoinLines(_)
JoinLines(lines) ==
    IF Len(lines) = 1 THEN lines[1]
    ELSE lines[1] \o <<"\n">> \o JoinLines(Tail(lines))
\* str.strip()
RECURSIVE StripLeft(_)
StripLeft(t) ==
    IF t # <<>> /\ Head(t) \in {" ", "\n", "\r"} THEN StripLeft(Tail(t)) ELSE t
RECURSIVE StripRight(_)
StripRight(t) ==
    IF t # <<>> /\ t[Len(t)] \in {" ", "\n", "\r"}
    THEN StripRight(SubSeq(t, 1, Len(t) - 1)) ELSE t
StripText(t) == StripRight(StripLeft(t))
\* ClauseAgent._preprocess_text(text)
PreprocessText(text) ==
    LET t1 == NormalizeLineBreaks(text)
        t2 == CollapseNewlines(t1, 0)
        lines == [i \in DOMAIN SplitLines(t2) |-> StripText(SplitLines(t2)[i])]
    IN StripText(JoinLines(lines))

InitPreprocess ==
    /\ now = 0
    /\ LimIdle
    /\ DispIdle
    /\ FactIdle
    /\ PipeIdle
    /\ finding = <<>>
    /\ rlevel = <<>>
    /\ ctext = <<>>
    /\ csplit = <<>>
    /\ contract_text \in SeqsUpTo(Chars, MaxChars)
    /\ cleaned_text = <<>>
    /\ analysis = <<>>
\* cleaned_text = self._preprocess_text(contract_text)
Preprocess ==
    /\ cleaned_text = <<>>
    /\ cleaned_text' = <<PreprocessText(contract_text)>>
    /\ UNCHANGED <<now, limVars, dispVars, factVars, pipeVars, finding, rlevel, ctext, csplit,
                   contract_text, analysis>>
\* the cleaned text is given to _preprocess_text once more
PreprocessAgain ==
    /\ Len(cleaned_text) = 1
    /\ cleaned_text' = Append(cleaned_text, PreprocessText(cleaned_text[1]))
    /\ UNCHANGED <<now, limVars, dispVars, factVars, pipeVars, finding, rlevel, ctext, csplit,
                   contract_text, analysis>>

NextPreprocess == Preprocess \/ PreprocessAgain

SpecPreprocess == InitPreprocess /\ [][NextPreprocess]_vars

\* t holds three newlines in a row
HasThreeNewlines(t) == Contains(t, <<"\n", "\n", "\n">>)
\* C35: after preprocessing the text holds no run of three or more
\* newlines, for every input, lines of white space included; preprocessing
\* twice gives the same text as preprocessing once.
C35_NoTripleNewlineIdempotent ==
    /\ \A i \in DOMAIN cleaned_text : ~HasThreeNewlines(cleaned_text[i])
    /\ Len(cleaned_text) = 2 => cleaned_text[2] = cleaned_text[1]

\* ------------------------------------------------------------------ C36
\* a step of HybridLLMClient.generate that the Gemini adapter served
ServedByGemini ==
    /\ ~(UNCHANGED dispVars)
    /\ dlast'.result = <<"text", "Gemini">>

\* C36: a generation served through the dispatcher takes exactly one token of
\* the serving adapter's limiter: after try_acquire() has admitted the call,
\* the adapter's generate takes no second token and does not wait in
\* acquire(), so the call returns at the time it started.
C36_OneTokenPerServedCall ==
    [][ServedByGemini => (dlast'.tokens = 1 /\ now' = dlast'.start)]_vars

\* ------------------------------------------------------------------ C37
\* the clauses of a result that hold line i of the text
ClausesHolding(r, i) ==
    {k \in DOMAIN r.clauses : \E n \in DOMAIN r.clauses[k].lines : r.clauses[k].lines[n] = i}
\* the clauses of a result follow each other in the order of the document
InDocumentOrder(r) ==
    \A k \in DOMAIN r.clauses :
        k > 1 => r.clauses[k - 1].lines[Len(r.clauses[k - 1].lines)] < r.clauses[k].lines[1]

\* C37: under the numbered, lettered and keyword-headed strategies every
\* non-blank line of the preprocessed text from the first heading on is
\* held by exactly one candidate clause, and the clauses are in document
\* order: no body line is lost by splitting.
C37_NoBodyLineLost ==
    \A c \in DOMAIN csplit :
        csplit[c].used \in {1, 2, 3} =>
            /\ InDocumentOrder(csplit[c])
            /\ \A i \in DOMAIN ctext :
                  (i >= csplit[c].clauses[1].lines[1] /\ ctext[i] # "blank")
                      => Cardinality(ClausesHolding(csplit[c], i)) = 1

\* ------------------------------------------------------------------ C38
\* the Policy Check stage of the run blocked the request
PolicyBlocked ==
    /\ state.metadata.policy_block = "set"
    /\ \E i \in DOMAIN state.audit_log :
          state.audit_log[i] = [agent |-> "PolicyCheck", action |-> "Block"]

\* C38: in a run whose Policy Check stage blocked the request, no contract
\* is generated: neither the Generation stage nor the fallback issues a
\* generation call afterwards.
C38_BlockedRequestNotGenerated ==
    (orch.pc # "idle" /\ PolicyBlocked) => (orch.gen_calls = 0 /\ orch.fb_calls = 0)

\* ========================================================= ComplianceAgent
\* app/agents/compliance_agent.py, services/compliance_service.py: the
\* analysis of one clause.  An answer of the model is a JSON object, known
\* by the four keys the agents read, or a text that holds no JSON object.
JsonAnswers ==
    {[kind |-> "json", risk_level |-> r, issue_summary |-> s, suggested_fix |-> f,
      missing_requirements |-> m] :
        r \in RiskLevelValues \cup {"nonstr"},
        s \in TextFields(MaxFixWords), f \in TextFields(MaxFixWords),
        m \in {[kind |-> k, n |-> 0] : k \in {"absent", "nonlist"}}
              \cup {[kind |-> "list", n |-> n] : n \in 0..MaxMissing}}
TextAnswers == {[kind |-> "text", words |-> w] : w \in SeqsUpTo(RiskWords, MaxWords)}
LlmAnswers == {[kind |-> "raise"]} \cup JsonAnswers \cup TextAnswers

Str(words) == [kind |-> "str", words |-> words]
\* ComplianceAgent._mock_llm_response
MockLlmResponse ==
    [kind |-> "json", risk_level |-> "low",
     issue_summary |->
        Str(<<"This", "is", "a", "mock", "compliance", "analysis.", "The", "clause",
              "appears", "generally", "compliant", "but", "may", "require", "review",
              "by", "legal", "counsel.">>),
     suggested_fix |->
        Str(<<"Consider", "adding", "explicit", "reference", "to", "governing", "law.">>),
     missing_requirements |-> [kind |-> "list", n |-> 1]]
\* ComplianceAgent._call_llm(llm_client, prompt): [called, exc, text]
CallLlm(llm_out) ==
    IF llm_out.kind = "raise"
    THEN [called |-> "raised", exc |-> FALSE, text |-> MockLlmResponse]
    ELSE [called |-> "returned", exc |-> FALSE, text |-> llm_out]

\* ComplianceAgent._fallback_parsing(analysis_text, snippets)
FallbackParsing(words) ==
    LET text_lower == Lower(words)
        high == {<<"high", "risk">>, <<"critical">>, <<"violation">>, <<"non-compliant">>,
                 <<"illegal">>}
        medium == {<<"medium", "risk">>, <<"concern">>, <<"missing">>, <<"should">>}
    IN [risk_level |-> IF \E w \in high : HasIndicator(text_lower, w) THEN "high"
                       ELSE IF \E w \in medium : HasIndicator(text_lower, w) THEN "medium"
                       ELSE "low",
        issue_summary |-> Str(words),
        suggested_fix |-> Str(<<"Please", "review", "with", "legal", "counsel">>),
        missing_requirements |-> [kind |-> "list", n |-> 0]]
\* ComplianceAgent._parse_llm_response(analysis_text, snippets): [exc, parsed];
\* .lower() of a risk_level that is no string raises AttributeError
ParseLlmResponse(a) ==
    IF a.kind = "text" THEN [exc |-> FALSE, parsed |-> FallbackParsing(a.words)]
    ELSE IF a.risk_level = "nonstr" THEN [exc |-> TRUE, parsed |-> <<>>]
    ELSE [exc |-> FALSE,
          parsed |->
            [risk_level |-> IF a.risk_level = "absent" THEN "medium"
                            ELSE LowerWord(a.risk_level),
             issue_summary |-> IF a.issue_summary.kind = "absent"
                               THEN Str(<<"No", "summary", "provided">>)
                               ELSE a.issue_summary,
             suggested_fix |-> IF a.suggested_fix.kind = "absent"
                               THEN Str(<<"No", "fix", "suggested">>)
                               ELSE a.suggested_fix,
             missing_requirements |-> IF a.missing_requirements.kind = "absent"
                                      THEN [kind |-> "list", n |-> 0]
                                      ELSE a.missing_requirements]]
\* ComplianceAgent._fallback_analysis(clause)["parsed"]
FallbackAnalysis ==
    [risk_level |-> "medium",
     issue_summary |->
        Str(<<"Unable", "to", "perform", "detailed", "compliance", "analysis", "due", "to",
              "lack", "of", "reference", "materials.">>),
     suggested_fix |->
        Str(<<"Consult", "with", "legal", "counsel", "for", "jurisdiction-specific",
              "requirements.">>),
     missing_requirements |-> [kind |-> "list", n |-> 1]]

\* ComplianceAgent.run(clause, jurisdiction, llm_client): snippets is the
\* number of legal snippets found, llm_out what the client's generate does.
\* [called, exc, parsed]: called tells what became of the LLM call.
ComplianceAgentRun(snippets, llm_client, llm_out) ==
    IF snippets = 0
    THEN [called |-> "no", exc |-> FALSE, parsed |-> FallbackAnalysis]
    ELSE LET c == IF llm_client
                  THEN CallLlm(llm_out)
                  ELSE [called |-> "no", exc |-> FALSE, text |-> MockLlmResponse]
             r == ParseLlmResponse(c.text)
         IN IF c.exc THEN [called |-> c.called, exc |-> TRUE, parsed |-> <<>>]
            ELSE [called |-> c.called, exc |-> r.exc, parsed |-> r.parsed]

\* ------------------------------------------------------ SpecAnalysis actions
InitAnalysis ==
    /\ now = 0
    /\ LimIdle
    /\ DispIdle
    /\ FactIdle
    /\ PipeIdle
    /\ AgentIdle
\* compliance_result = await compliance_agent.run(clause, jurisdiction, llm_client)
AnalyseClause(snippets, llm_client, llm_out) ==
    /\ analysis = <<>>
    /\ analysis' = <<ComplianceAgentRun(snippets, llm_client, llm_out)>>
    /\ UNCHANGED <<now, limVars, dispVars, factVars, pipeVars, finding, rlevel, ctext, csplit,
                   contract_text, cleaned_text>>
\* parsed = compliance_result.get("parsed", {});
\* risk_result = await risk_agent.run(parsed)
AssessRisk ==
    /\ analysis # <<>>
    /\ ~analysis[1].exc
    /\ rlevel = <<>>
    /\ finding' = analysis[1].parsed
    /\ rlevel' = <<[arg |-> finding', ret |-> DetermineRiskLevel(finding')]>>
    /\ UNCHANGED <<now, limVars, dispVars, factVars, pipeVars, ctext, csplit, contract_text,
                   cleaned_text, analysis>>

NextAnalysis ==
    \/ \E snippets \in {0, 1}, llm_client \in BOOLEAN, llm_out \in LlmAnswers :
           AnalyseClause(snippets, llm_client, llm_out)
    \/ AssessRisk

SpecAnalysis == InitAnalysis /\ [][NextAnalysis]_vars

\* C39: in the analysis of a clause a failed LLM call never gives a finding
\* classified as low risk: the failure surfaces as an error or as a fallback
\* finding of another tier.
C39_FailedCallNeverLowRisk ==
    \A i \in DOMAIN analysis :
        analysis[i].called = "raised" =>
            \/ analysis[i].exc
            \/ \A k \in DOMAIN rlevel : rlevel[k].ret # "low"

====
